---- MODULE Spec2Model ----
(***************************************************************************)
(* Translation orchestration of Translate-XV3: the credential pool         *)
(* (MultiAPIManager), the two orchestrators (MultiGeminiTranslatorManager  *)
(* and GeminiTranslator), the chunker, the math-expression guard and the   *)
(* local dictionary.                                                       *)
(*                                                                         *)
(* A text is a sequence of one-character strings.  A placeholder           *)
(* "__MATH_EXPR_n__" is one symbol of that sequence: no pattern of the     *)
(* guard can match a proper part of it, so it behaves as one run of word   *)
(* characters.  An Arabic word produced by a provider or by the dictionary *)
(* is likewise one symbol.                                                 *)
(***************************************************************************)
EXTENDS Naturals, Integers, Sequences, FiniteSets, TLC

\* ------------------------------------------------------------------ bounds
\* length of the texts given to the math-expression guard
MaxTextLen == 5
\* selections of one credential by direct calls of get_current_api_key
MaxUsage == 1
\* reactivation timers pending for one credential
MaxTimers == 1
\* credential objects ever created
MaxObjs == 2
\* lines of a document
MaxLines == 2
\* abandoned request threads still running during one call
MaxPending == 1
\* failed primary requests of one call
MaxFaults == 3
\* calls that can run at the same time
NumTasks == 3

\* ------------------------------------------------------ characters and text
Digits == {"0", "1", "2", "3", "4", "5", "6", "7", "8", "9"}
LowerLetters == {"a", "b", "c", "d", "e", "f", "g", "h", "i", "j", "k", "l", "m",
                 "n", "o", "p", "q", "r", "s", "t", "u", "v", "w", "x", "y", "z"}
UpperLetters == {"H", "W", "Z"}
\* f"__MATH_EXPR_{placeholder_counter}__", one symbol per counter value
Placeholders == <<"__MATH_EXPR_0__", "__MATH_EXPR_1__", "__MATH_EXPR_2__",
                  "__MATH_EXPR_3__", "__MATH_EXPR_4__", "__MATH_EXPR_5__">>
PlaceholderSet == {Placeholders[k] : k \in 1..Len(Placeholders)}

IsSpace(c) == c \in {" ", "\n"}
IsDigit(c) == c \in Digits
IsLetter(c) == c \in LowerLetters \cup UpperLetters
\* \w : letters, digits, underscore; a placeholder is a run of such characters
IsWord(c) == IsDigit(c) \/ IsLetter(c) \/ c = "_" \/ c \in PlaceholderSet

IsAsciiLetter(c) == IsLetter(c)
\* the operator class [=+\-*/] of the algebra patterns
IsAlgOp(c) == c \in {"=", "+", "-", "*", "/"}
\* \b before position i, where s[i] is a word character
BoundaryBefore(s, i) == IF i = 1 THEN TRUE ELSE ~IsWord(s[i - 1])

Min(S) == CHOOSE m \in S : \A n \in S : m <= n
Max(S) == CHOOSE m \in S : \A n \in S : m >= n

\* s[i..j], empty when j < i
Slice(s, i, j) == IF j < i THEN <<>> ELSE SubSeq(s, i, j)

\* The last index of the longest run of characters satisfying P that starts at
\* i (i - 1 when s[i] does not satisfy P): a greedy P* from i.
RunEnd(s, i, P(_)) ==
    LET bad == {k \in i..Len(s) : ~P(s[k])}
    IN  IF bad = {} THEN Len(s) ELSE Min(bad) - 1

\* str.find(sub, from): the first index >= from at which sub occurs, 0 if none
FindFrom(s, sub, from) ==
    LET hits == {k \in from..(Len(s) - Len(sub) + 1) :
                    Slice(s, k, k + Len(sub) - 1) = sub}
    IN  IF hits = {} THEN 0 ELSE Min(hits)

\* str.replace(sub, rep, 1)
ReplaceFirst(s, sub, rep) ==
    LET k == FindFrom(s, sub, 1)
    IN  IF k = 0 THEN s
        ELSE Slice(s, 1, k - 1) \o rep \o Slice(s, k + Len(sub), Len(s))

\* str.replace(sub, rep): every non-overlapping occurrence, left to right
RECURSIVE ReplaceAllFrom(_, _, _, _)
ReplaceAllFrom(s, sub, rep, from) ==
    LET k == FindFrom(s, sub, from)
    IN  IF k = 0 THEN Slice(s, from, Len(s))
        ELSE Slice(s, from, k - 1) \o rep
             \o ReplaceAllFrom(s, sub, rep, k + Len(sub))

ReplaceAll(s, sub, rep) == ReplaceAllFrom(s, sub, rep, 1)

\* ------------------------------------------------------------ str methods
\* str.lower() on the letters that occur
LowerChar(c) ==
    CASE c = "H" -> "h" [] c = "W" -> "w" [] c = "Z" -> "z" [] OTHER -> c

Lower(s) == [k \in 1..Len(s) |-> LowerChar(s[k])]

\* str.strip(chars): both ends
StripSet(s, C) ==
    LET keep == {k \in 1..Len(s) : s[k] \notin C}
    IN  IF keep = {} THEN <<>> ELSE SubSeq(s, Min(keep), Max(keep))

\* str.strip()
Strip(s) == StripSet(s, {" ", "\n"})

\* str.split(): the maximal runs of non-whitespace characters
RECURSIVE SplitWsFrom(_, _)
SplitWsFrom(s, i) ==
    LET starts == {k \in i..Len(s) : ~IsSpace(s[k])}
    IN  IF starts = {} THEN <<>>
        ELSE LET a == Min(starts)
                 ends == {k \in a..Len(s) : IsSpace(s[k])}
                 b == IF ends = {} THEN Len(s) ELSE Min(ends) - 1
             IN  <<SubSeq(s, a, b)>> \o SplitWsFrom(s, b + 1)

SplitWs(s) == SplitWsFrom(s, 1)

\* str.split(sep): every piece, empty ones included
RECURSIVE SplitOnFrom(_, _, _)
SplitOnFrom(s, sep, i) ==
    LET k == FindFrom(s, sep, i)
    IN  IF k = 0 THEN <<Slice(s, i, Len(s))>>
        ELSE <<Slice(s, i, k - 1)>> \o SplitOnFrom(s, sep, k + Len(sep))

SplitOn(s, sep) == SplitOnFrom(s, sep, 1)

\* sep.join(parts)
RECURSIVE Join(_, _)
Join(sep, parts) ==
    IF parts = <<>> THEN <<>>
    ELSE IF Len(parts) = 1 THEN parts[1]
    ELSE parts[1] \o sep \o Join(sep, Tail(parts))

\* sub in s
Contains(s, sub) == FindFrom(s, sub, 1) # 0

\* str.isdigit()
IsDigitStr(s) == s # <<>> /\ \A k \in 1..Len(s) : IsDigit(s[k])

DigitValue(c) ==
    CASE c = "0" -> 0 [] c = "1" -> 1 [] c = "2" -> 2 [] c = "3" -> 3 [] c = "4" -> 4
      [] c = "5" -> 5 [] c = "6" -> 6 [] c = "7" -> 7 [] c = "8" -> 8 [] OTHER -> 9

RECURSIVE DigitsValue(_)
DigitsValue(s) ==
    IF s = <<>> THEN 0 ELSE 10 * DigitsValue(Slice(s, 1, Len(s) - 1)) + DigitValue(s[Len(s)])

\* int(s): [ok, value]; not ok is ValueError.  Surrounding whitespace and one
\* sign are accepted.
IntOf(s) ==
    LET t == Strip(s)
        signed == t # <<>> /\ t[1] \in {"+", "-"}
        d == IF signed THEN Tail(t) ELSE t
    IN  IF IsDigitStr(d)
        THEN [ok |-> TRUE,
              value |-> IF signed /\ t[1] = "-" THEN 0 - DigitsValue(d) ELSE DigitsValue(d)]
        ELSE [ok |-> FALSE, value |-> 0]

\* f"{n}" for 0 <= n <= 99
DigitChar(d) == SubSeq(<<"0", "1", "2", "3", "4", "5", "6", "7", "8", "9">>, d + 1, d + 1)
Decimal(n) == IF n < 10 THEN DigitChar(n) ELSE DigitChar(n \div 10) \o DigitChar(n % 10)

\* ----------------------------------------------------------- LocalTranslator
\* entries of self.dictionary; the Arabic word is one symbol, written here by
\* the English word it translates: "ar(or)" is the word أو
Dictionary ==
    << <<<<"o", "r">>, <<"ar(or)">>>>,
       <<<<"i", "n">>, <<"ar(in)">>>>,
       <<<<"n", "o">>, <<"ar(no)">>>>,
       <<<<"g", "o">>, <<"ar(go)">>>> >>

\* an entry of self.phrase_dictionary, "thank you": two Arabic words
PhraseDictionary ==
    << <<<<"t", "h", "a", "n", "k", " ", "y", "o", "u">>,
         <<"ar(thank)", " ", "ar(you)">>>> >>

\* clean_word in self.dictionary / self.dictionary[clean_word]
InDictionary(w) == \E k \in 1..Len(Dictionary) : Dictionary[k][1] = w
DictionaryAt(w) == Dictionary[CHOOSE k \in 1..Len(Dictionary) : Dictionary[k][1] = w][2]

\* for phrase, translation in self.phrase_dictionary.items(): replace
RECURSIVE ReplacePhrases(_, _)
ReplacePhrases(text, k) ==
    IF k > Len(PhraseDictionary) THEN text
    ELSE ReplacePhrases(
            IF Contains(text, PhraseDictionary[k][1])
            THEN ReplaceAll(text, PhraseDictionary[k][1], PhraseDictionary[k][2])
            ELSE text,
            k + 1)

WordPunctuation == {".", ",", "!", "?", ";", ":", "\"", "(", ")", "[", "]", "{", "}"}

\* one word of the word-by-word loop
TranslateWord(word) ==
    LET clean_word == Lower(StripSet(word, WordPunctuation))
    IN  IF InDictionary(clean_word)
        THEN DictionaryAt(clean_word) \o Slice(word, Len(clean_word) + 1, Len(word))
        ELSE word

\* LocalTranslator.translate_text
LocalTranslateText(text) ==
    IF Strip(text) = <<>> THEN text
    ELSE LET lower_text == ReplacePhrases(Lower(Strip(text)), 1)
             words == SplitWs(lower_text)
         IN  Join(<<" ">>, [k \in 1..Len(words) |-> TranslateWord(words[k])])

\* a loop that sends every line, blank or not, through translate_text
LocalLinesAllTranslated(lines) ==
    [k \in 1..Len(lines) |-> <<lines[k], LocalTranslateText(lines[k])>>]

\* LocalTranslator.translate_lines: a line with text is paired with its
\* translation, a blank line with the empty text
LocalTranslateLines(lines) ==
    [k \in 1..Len(lines) |->
        IF Strip(lines[k]) # <<>>
        THEN <<lines[k], LocalTranslateText(lines[k])>>
        ELSE <<lines[k], <<>>>>]

\* ------------------------------------------------------------------ Chunker
\* the class of the third pattern; a symbol outside Latin-1 is written by its
\* code point
MathSymbols == {"=", "U+222B", "U+2211", "U+220F", "U+2206", "U+2207", "±", "U+2264",
                "U+2265", "U+2260", "U+221E", "U+222A", "U+2229", "U+2282", "U+2283",
                "U+2208", "U+2209", "U+2200", "U+2203"}
MathFunctions ==
    {<<"s", "i", "n">>, <<"c", "o", "s">>, <<"t", "a", "n">>, <<"l", "o", "g">>,
     <<"l", "n">>, <<"e", "x", "p">>, <<"s", "q", "r", "t">>}

\* GeminiTranslator._is_mathematical_line: re.search of each pattern
IsMathematicalLine(line) ==
    LET n == Len(line)
    IN  \/ \E i \in 1..n : \E j \in (i + 1)..n :
              /\ line[i] = "$" /\ line[j] = "$"
              /\ \A k \in (i + 1)..(j - 1) : line[k] # "\n"
        \/ \E i \in 1..(n - 1) : line[i] = "\\" /\ IsAsciiLetter(line[i + 1])
        \/ \E i \in 1..n : line[i] \in MathSymbols
        \/ \E i \in 1..n :
              /\ IsDigit(line[i]) /\ BoundaryBefore(line, i)
              /\ LET d == RunEnd(line, i, IsDigit)
                 IN  /\ d + 2 <= n
                     /\ line[d + 1] \in {"+", "-", "*", "/", "="}
                     /\ IsDigit(line[d + 2])
        \/ \E i \in 1..n :
              /\ line[i] \in {"x", "y", "z"}
              /\ LET a == RunEnd(line, i + 1, IsSpace) + 1
                 IN  /\ a <= n /\ IsAlgOp(line[a])
                     /\ LET b == RunEnd(line, a + 1, IsSpace) + 1
                        IN  b <= n /\ IsDigit(line[b])
        \/ \E i \in 1..n : \E f \in MathFunctions :
              /\ IsWord(line[i]) /\ BoundaryBefore(line, i)
              /\ i + Len(f) <= n
              /\ SubSeq(line, i, i + Len(f) - 1) = f
              /\ line[i + Len(f)] = "("

\* a chunker that takes the colon for ordinary text
SentenceEndNoColon == {".", "!", "?"}

\* line.endswith(('.', '!', '?', ':'))
SentenceEnd == {".", "!", "?", ":"}
MaxChunkLines == 5

\* _create_smart_chunks, from line k on: chunks so far and the current chunk
RECURSIVE SmartChunksFrom(_, _, _, _)
SmartChunksFrom(lines, k, chunks, current_chunk) ==
    IF k > Len(lines)
    THEN IF current_chunk # <<>> THEN Append(chunks, current_chunk) ELSE chunks
    ELSE LET line == Strip(lines[k])
         IN  IF line = <<>>
             THEN SmartChunksFrom(lines, k + 1,
                     IF current_chunk # <<>> THEN Append(chunks, current_chunk) ELSE chunks,
                     <<>>)
             ELSE LET grown == Append(current_chunk, line)
                  IN  IF \/ line[Len(line)] \in SentenceEnd
                         \/ Len(grown) >= MaxChunkLines
                         \/ IsMathematicalLine(line)
                      THEN SmartChunksFrom(lines, k + 1, Append(chunks, grown), <<>>)
                      ELSE SmartChunksFrom(lines, k + 1, chunks, grown)

\* a chunker whose loop starts at the second line
SmartChunksAfterFirst(lines) == SmartChunksFrom(lines, 2, <<>>, <<>>)

\* GeminiTranslator._create_smart_chunks
CreateSmartChunks(lines) == SmartChunksFrom(lines, 1, <<>>, <<>>)

\* ------------------------------------------------ _parse_batch_translation
\* translation_map after the lines of the response from k on: a sequence of
\* <<index, translation>>, a later entry for an index overriding an earlier one
RECURSIVE TranslationMapFrom(_, _, _)
TranslationMapFrom(translated_lines, k, map) ==
    IF k > Len(translated_lines) THEN map
    ELSE LET line == Strip(translated_lines[k])
             parts == SplitOn(line, <<".", " ">>)
             num == IntOf(parts[1])
         IN  IF line # <<>> /\ Contains(line, <<".", " ">>) /\ num.ok
             THEN TranslationMapFrom(translated_lines, k + 1,
                     Append(map,
                        <<num.value - 1,
                          Strip(Slice(line, Len(parts[1]) + 3, Len(line)))>>))
             ELSE TranslationMapFrom(translated_lines, k + 1, map)

\* i in translation_map / translation_map[i]
InMap(map, i) == \E k \in 1..Len(map) : map[k][1] = i
MapAt(map, i) == map[Max({k \in 1..Len(map) : map[k][1] = i})][2]

\* a parser that gives up on the whole batch when an entry is missing
ParseAllOrNothing(original_lines, translated_text) ==
    LET map == TranslationMapFrom(SplitOn(translated_text, <<"\n">>), 1, <<>>)
    IN  IF \E i \in 1..Len(original_lines) :
              Strip(original_lines[i]) # <<>> /\ ~InMap(map, i - 1)
        THEN [i \in 1..Len(original_lines) |-> <<original_lines[i], original_lines[i]>>]
        ELSE [i \in 1..Len(original_lines) |->
                 IF Strip(original_lines[i]) # <<>>
                 THEN <<original_lines[i], MapAt(map, i - 1)>>
                 ELSE <<original_lines[i], <<>>>>]

\* MultiGeminiTranslatorManager._parse_batch_translation
ParseBatchTranslation(original_lines, translated_text) ==
    LET map == TranslationMapFrom(SplitOn(translated_text, <<"\n">>), 1, <<>>)
    IN  [i \in 1..Len(original_lines) |->
            IF Strip(original_lines[i]) # <<>>
            THEN IF InMap(map, i - 1)
                 THEN <<original_lines[i], MapAt(map, i - 1)>>
                 ELSE <<original_lines[i], original_lines[i]>>
            ELSE <<original_lines[i], <<>>>>]

\* batch_text: f"{i+1}. {line.strip()}\n" for every line that is not blank
RECURSIVE BatchTextFrom(_, _)
BatchTextFrom(lines, k) ==
    IF k > Len(lines) THEN <<>>
    ELSE (IF Strip(lines[k]) # <<>>
          THEN Decimal(k) \o <<".", " ">> \o Strip(lines[k]) \o <<"\n">>
          ELSE <<>>) \o BatchTextFrom(lines, k + 1)

BatchText(lines) == BatchTextFrom(lines, 1)

\* a fallback that answers for the lines with text only
PassThroughText(lines) ==
    SelectSeq([i \in 1..Len(lines) |-> <<lines[i], lines[i]>>],
              LAMBDA pair : Strip(pair[1]) # <<>>)

\* [(line, line) for line in lines]
PassThrough(lines) == [i \in 1..Len(lines) |-> <<lines[i], lines[i]>>]

\* ------------------------------------------------------ MathExpressionGuard
IsEqOp(c) == c \in {"+", "-", "*", "/", "=", "×", "÷"}
IsAlgTail(c) == IsWord(c) \/ IsSpace(c) \/ c \in {"+", "-", "*", "/"}
NotDollar(c) == c # "$"
NotCloseBrace(c) == c # "}"

\* r'\$[^$]+\$' at i: the last index of the match, 0 when there is none
MatchLatexMath(s, i) ==
    IF s[i] # "$" THEN 0
    ELSE LET e == RunEnd(s, i + 1, NotDollar)
         IN  IF e >= i + 1 /\ e + 1 <= Len(s) THEN e + 1 ELSE 0

\* r'\$\$[^$]+\$\$'
MatchLatexBlock(s, i) ==
    IF ~(i + 1 <= Len(s) /\ s[i] = "$" /\ s[i + 1] = "$") THEN 0
    ELSE LET e == RunEnd(s, i + 2, NotDollar)
         IN  IF e >= i + 2 /\ e + 2 <= Len(s) /\ s[e + 2] = "$" THEN e + 2 ELSE 0

\* r'\\[a-zA-Z]+\{[^}]*\}'
MatchLatexCmd(s, i) ==
    IF s[i] # "\\" THEN 0
    ELSE LET l == RunEnd(s, i + 1, IsAsciiLetter)
         IN  IF ~(l >= i + 1 /\ l + 1 <= Len(s) /\ s[l + 1] = "{") THEN 0
             ELSE LET b == RunEnd(s, l + 2, NotCloseBrace)
                  IN  IF b + 1 <= Len(s) THEN b + 1 ELSE 0

\* \s*[+\-*/=×÷]\s*\d+ from i: the last index of the group, 0 when it fails
EqGroupEnd(s, i) ==
    LET a == RunEnd(s, i, IsSpace) + 1
    IN  IF ~(a <= Len(s) /\ IsEqOp(s[a])) THEN 0
        ELSE LET b == RunEnd(s, a + 1, IsSpace) + 1
                 d == RunEnd(s, b, IsDigit)
             IN  IF d >= b THEN d ELSE 0

\* (?:\s*[+\-*/=×÷]\s*\d+)* after index e, greedy
RECURSIVE EqGroupsEnd(_, _)
EqGroupsEnd(s, e) ==
    LET g == EqGroupEnd(s, e + 1)
    IN  IF g = 0 THEN e ELSE EqGroupsEnd(s, g)

\* r'\b\d+\s*[+\-*/=×÷]\s*\d+(?:\s*[+\-*/=×÷]\s*\d+)*'
MatchEquation(s, i) ==
    IF ~(IsDigit(s[i]) /\ BoundaryBefore(s, i)) THEN 0
    ELSE LET d == RunEnd(s, i, IsDigit)
             g == EqGroupEnd(s, d + 1)
         IN  IF g = 0 THEN 0 ELSE EqGroupsEnd(s, g)

\* r'[xyz]\s*[=+\-*/]\s*[\d\w\s+\-*/]+' : the tail class holds \s, so the
\* second \s* gives back what the tail needs
MatchAlgebra(s, i) ==
    IF s[i] \notin {"x", "y", "z"} THEN 0
    ELSE LET a == RunEnd(s, i + 1, IsSpace) + 1
         IN  IF ~(a <= Len(s) /\ IsAlgOp(s[a])) THEN 0
             ELSE LET t == RunEnd(s, a + 1, IsAlgTail)
                  IN  IF t >= a + 1 THEN t ELSE 0

\* the patterns list, in its order
NumPatterns == 5
MatchPattern(p, s, i) ==
    CASE p = 1 -> MatchLatexMath(s, i)
      [] p = 2 -> MatchLatexBlock(s, i)
      [] p = 3 -> MatchLatexCmd(s, i)
      [] p = 4 -> MatchEquation(s, i)
      [] OTHER -> MatchAlgebra(s, i)

\* re.finditer(pattern, s): the matched texts, left to right, non-overlapping
RECURSIVE FindIter(_, _, _)
FindIter(p, s, i) ==
    IF i > Len(s) THEN <<>>
    ELSE LET e == MatchPattern(p, s, i)
         IN  IF e = 0 THEN FindIter(p, s, i + 1)
             ELSE <<SubSeq(s, i, e)>> \o FindIter(p, s, e + 1)

\* The inner loop: each match is recorded under the next placeholder and its
\* first occurrence in the current text replaced.  st = [text, map], map the
\* sequence of <<placeholder, expression>> in insertion order.
RECURSIVE ReplaceMatches(_, _)
ReplaceMatches(st, groups) ==
    IF groups = <<>> THEN st
    ELSE LET placeholder == Placeholders[Len(st.map) + 1]
         IN  ReplaceMatches(
                 [text |-> ReplaceFirst(st.text, Head(groups), <<placeholder>>),
                  map  |-> Append(st.map, <<placeholder, Head(groups)>>)],
                 Tail(groups))

\* The outer loop: finditer scans the text as it is when the pattern starts.
RECURSIVE ExtractFrom(_, _)
ExtractFrom(st, p) ==
    IF p > NumPatterns THEN st
    ELSE ExtractFrom(ReplaceMatches(st, FindIter(p, st.text, 1)), p + 1)

\* _extract_math_expressions(text) -> (modified_text, math_expressions)
ExtractMathExpressions(text) == ExtractFrom([text |-> text, map |-> <<>>], 1)

\* _restore_math_expressions(text, math_expressions): dict order is insertion
\* order
RECURSIVE RestoreFrom(_, _, _)
RestoreFrom(text, map, k) ==
    IF k > Len(map) THEN text
    ELSE RestoreFrom(ReplaceAll(text, <<map[k][1]>>, map[k][2]), map, k + 1)

RestoreMathExpressions(text, map) == RestoreFrom(text, map, 1)


\* ------------------------------------------------------------ MultiAPIManager
\* the secrets that occur; "" is an environment variable that is not set
KeyVals == {"k1", "k2", "k3"}
None == "None"
ObjIds == 1..MaxObjs

\* f"Secondary_{i}" and f"Manual_{n}"
SecondaryName(i) == "Secondary_" \o ToString(i)
ManualName(n) == "Manual_" \o ToString(n)

\* the dict appended by load_api_keys and add_api_key; obj is the identity of
\* the dict, which a reactivation task keeps a reference to
NewCredential(key, name, obj) ==
    [key |-> key, name |-> name, usage_count |-> 0, last_used |-> None,
     is_active |-> TRUE, obj |-> obj]

\* load_api_keys: env[1] is GEMINI_API_KEY, env[i] is GEMINI_API_KEY_i
RECURSIVE LoadApiKeys(_, _, _)
LoadApiKeys(env, i, keys) ==
    IF i > Len(env) THEN keys
    ELSE LoadApiKeys(env, i + 1,
            IF env[i] = "" THEN keys
            ELSE Append(keys, NewCredential(env[i],
                                IF i = 1 THEN "Primary" ELSE SecondaryName(i),
                                Len(keys) + 1)))

\* a selection among all the credentials, active or not
EveryIdx(keys) == 1..Len(keys)

\* active_keys = [k for k in self.api_keys if k['is_active']], as indices
ActiveIdx(keys) == {i \in 1..Len(keys) : keys[i].is_active}

\* for key in self.api_keys: key['is_active'] = True
AllActive(keys) == [i \in 1..Len(keys) |-> [keys[i] EXCEPT !.is_active = TRUE]]

\* a selection that counts a use for every credential of the pool
SelectedCountsAll(keys, i) ==
    [k \in 1..Len(keys) |->
        [keys[k] EXCEPT !.usage_count = @ + 1,
                        !.last_used = IF k = i THEN "now" ELSE @]]

\* selected_key['usage_count'] += 1; selected_key['last_used'] = datetime.now()
Selected(keys, i) ==
    [keys EXCEPT ![i] = [@ EXCEPT !.usage_count = @ + 1, !.last_used = "now"]]

\* A variant that returns None when no credential is active instead of
\* reactivating them all.
GetCurrentApiKeyNoReset(keys) ==
    IF ActiveIdx(keys) = {} THEN {[keys |-> keys, ret |-> None, reset |-> FALSE]}
    ELSE {[keys |-> Selected(keys, i), ret |-> keys[i].key, reset |-> FALSE] :
             i \in ActiveIdx(keys)}

\* A variant that reactivates every credential on each selection.
GetCurrentApiKeyAlwaysReset(keys) ==
    IF keys = <<>> THEN {[keys |-> keys, ret |-> None, reset |-> FALSE]}
    ELSE {[keys |-> Selected(AllActive(keys), i), ret |-> keys[i].key,
           reset |-> ActiveIdx(keys) = {}] : i \in 1..Len(keys)}

\* get_current_api_key: every outcome of random.choice, as the pool after the
\* call, the value returned and whether the all-inactive reset ran
GetCurrentApiKey(keys) ==
    IF keys = <<>> THEN {[keys |-> keys, ret |-> None, reset |-> FALSE]}
    ELSE LET reset == ActiveIdx(keys) = {}
             now   == IF reset THEN AllActive(keys) ELSE keys
         IN  {[keys |-> Selected(now, i), ret |-> now[i].key, reset |-> reset] :
                 i \in ActiveIdx(now)}

\* the first credential whose secret is api_key (the loop breaks there), 0 if none
FirstWithKey(keys, api_key) ==
    LET hits == {i \in 1..Len(keys) : keys[i].key = api_key}
    IN  IF hits = {} THEN 0 ELSE Min(hits)

\* mark_key_failed: the pool after the call
MarkKeyFailed(keys, api_key) ==
    LET i == FirstWithKey(keys, api_key)
    IN  IF i = 0 THEN keys ELSE [keys EXCEPT ![i].is_active = FALSE]

\* asyncio.create_task(self._reactivate_key_after_delay(key_info, 300))
MarkKeyFailedTimers(keys, tm, api_key) ==
    LET i == FirstWithKey(keys, api_key)
    IN  IF i = 0 THEN tm ELSE [tm EXCEPT ![keys[i].obj] = @ + 1]

\* the model keeps at most MaxTimers pending tasks per credential object
CanMarkKeyFailed(keys, tm, api_key) ==
    LET i == FirstWithKey(keys, api_key)
    IN  IF i = 0 THEN TRUE ELSE tm[keys[i].obj] < MaxTimers

\* the model keeps usage_count within MaxUsage
CanSelect(out) == \A i \in 1..Len(out.keys) : out.keys[i].usage_count <= MaxUsage

\* a task that wakes up and leaves the credential as it is
ReactivateNothing(keys, obj) == keys

\* _reactivate_key_after_delay, after the sleep: key_info['is_active'] = True
\* on the dict the task holds, in the pool or not
ReactivateKey(keys, obj) ==
    [i \in 1..Len(keys) |->
        IF keys[i].obj = obj THEN [keys[i] EXCEPT !.is_active = TRUE] ELSE keys[i]]

\* add_api_key(api_key, name=None): the pool after the call and the result
AddApiKey(keys, api_key, obj) ==
    IF \E i \in 1..Len(keys) : keys[i].key = api_key
    THEN [keys |-> keys, ret |-> FALSE]
    ELSE [keys |-> Append(keys, NewCredential(api_key, ManualName(Len(keys) + 1), obj)),
          ret |-> TRUE]

\* del self.api_keys[i]
DeleteAt(keys, i) == Slice(keys, 1, i - 1) \o Slice(keys, i + 1, Len(keys))

\* remove_api_key(key_name): the first credential of that name
RemoveApiKey(keys, key_name) ==
    LET hits == {i \in 1..Len(keys) : keys[i].name = key_name}
    IN  IF hits = {} THEN [keys |-> keys, ret |-> FALSE]
        ELSE [keys |-> DeleteAt(keys, Min(hits)), ret |-> TRUE]

\* get_status, the 'key' entry of one credential:
\* key[:10] + "..." + key[-5:] if len(key) > 15 else "***"
MaskedKey(key) ==
    IF Len(key) > 15
    THEN SubSeq(key, 1, 10) \o <<".", ".", ".">> \o SubSeq(key, Len(key) - 4, Len(key))
    ELSE <<"*", "*", "*">>

\* the error_message arguments callers give to mark_key_failed: the one the
\* manager passes after a quota error, and a caller reporting a timeout
ErrorMessages == {"Quota exceeded", "timeout"}

\* whether an error_message names quota or rate-limit exhaustion
IsQuotaMessage(error_message) == error_message = "Quota exceeded"

NoCall == [op |-> "none", ret |-> None, reset |-> FALSE, error_message |-> None]

\* ------------------------------------------------------------------- state
VARIABLES
    g_pc,        \* guard round trip: "input", "masked", "restored"
    g_text,      \* the text given to the guard
    g_masked,    \* the masked text and its placeholder map
    g_restored   \* the text after restoring

guardVars == <<g_pc, g_text, g_masked, g_restored>>

VARIABLES
    api_keys,    \* multi_api_manager.api_keys: the credentials, in list order
    timers,      \* pending _reactivate_key_after_delay tasks, per credential object
    next_obj,    \* the number of credential objects created so far
    last_call    \* the last pool call: its name, argument, result and branch

poolVars == <<api_keys, timers, next_obj, last_call>>

VARIABLES
    tk,                \* per call in progress: its operation, position and locals
    genai_key,         \* the key genai.configure last set (module-wide)
    current_api_key,   \* GeminiTranslator.current_api_key
    sem_tr,            \* free permits of GeminiTranslator.semaphore
    sem_mgr,           \* free permits of MultiGeminiTranslatorManager.semaphore
    orphans,           \* primary requests still running in a worker thread after
                       \* asyncio.wait_for gave up on them
    groq_client,       \* whether self.groq_client is set
    fallback_api_key   \* GeminiTranslator.fallback_api_key

taskVars == <<tk, genai_key, current_api_key, sem_tr, sem_mgr, orphans, groq_client,
              fallback_api_key>>

VARIABLES
    active_translations,   \* BotHandlers.active_translations
    user_files,            \* BotHandlers.user_files: per user the stored document (0: no entry)
    handlers,              \* the handler coroutines of the Application: name, user, position
    bot_history,           \* the updates taken so far, and the documents rejected and translated
    groq_manager           \* the GroqAPIManager: model, temperature, max_tokens, top_p

botVars == <<active_translations, user_files, handlers, bot_history, groq_manager>>

vars == <<g_pc, g_text, g_masked, g_restored, api_keys, timers, next_obj, last_call,
          tk, genai_key, current_api_key, sem_tr, sem_mgr, orphans, groq_client,
          fallback_api_key, active_translations, user_files, handlers, bot_history,
          groq_manager>>

\* ---------------------------------------------------------------- BotHandlers
\* the users that write to the bot, and the handler coroutines that can exist
\* at once
NumUsers == 2
NumSlots == 2
Users == 1..NumUsers
Slots == 1..NumSlots

IdleHandler == [name |-> "none", user_id |-> 0, document |-> 0, pc |-> "done"]

\* ------------------------------------------------------------- GroqAPIManager
\* GroqConfig.AVAILABLE_MODELS: the max_tokens of every supported model
ModelNames == {"gemma2-9b-it", "llama3-8b-8192", "mixtral-8x7b-32768", "llama3-70b-8192"}

AvailableModels ==
    [m \in ModelNames |-> [max_tokens |-> IF m = "mixtral-8x7b-32768" THEN 32768 ELSE 8192]]

DefaultModel == "gemma2-9b-it"
DefaultMaxTokens == 2048

\* GroqConfig.validate_model
ValidateModel(model_name) == model_name \in DOMAIN AvailableModels

\* GroqConfig.get_model_config: the entry of the model, that of the default
\* model for a name that is not supported
GetModelConfig(model_name) ==
    IF model_name \in DOMAIN AvailableModels THEN AvailableModels[model_name]
    ELSE AvailableModels[DefaultModel]

MinOf(a, b) == IF a <= b THEN a ELSE b

\* GroqAPIManager.__init__: the defaults of GroqConfig (temperature and top_p
\* written as decimals)
NewGroqAPIManager ==
    [model |-> DefaultModel, temperature |-> "0.3", max_tokens |-> DefaultMaxTokens,
     top_p |-> "1.0"]

\* set_model that takes the model and leaves max_tokens as it is
SetModelKeepsTokens(mgr, model_name) ==
    IF ValidateModel(model_name) THEN [mgr EXCEPT !.model = model_name] ELSE mgr

\* GroqAPIManager.set_model
SetModel(mgr, model_name) ==
    IF ValidateModel(model_name)
    THEN [mgr EXCEPT !.model = model_name,
                     !.max_tokens = MinOf(@, GetModelConfig(model_name).max_tokens)]
    ELSE mgr

\* GroqAPIManager.set_parameters; an argument left out is None, and
\* max_tokens is given as <<n>> and left out as <<>>
SetParameters(mgr, temperature, max_tokens, top_p) ==
    [mgr EXCEPT !.temperature = IF temperature # None THEN temperature ELSE @,
                !.max_tokens = IF max_tokens # <<>>
                               THEN MinOf(max_tokens[1], GetModelConfig(mgr.model).max_tokens)
                               ELSE @,
                !.top_p = IF top_p # None THEN top_p ELSE @]

\* BotHandlers.__init__ and GroqAPIManager.__init__: no user is active, no
\* file is stored, the manager has its defaults
InitBotIdle ==
    /\ active_translations = {}
    /\ user_files = [u \in Users |-> 0]
    /\ handlers = [s \in Slots |-> IdleHandler]
    /\ bot_history = [updates |-> 0, rejected |-> {}, translated |-> <<>>]
    /\ groq_manager = NewGroqAPIManager

\* --------------------------------------------------------- calls in progress
Tasks == 1..NumTasks

\* asyncio.Semaphore(8) of GeminiTranslator and of MultiGeminiTranslatorManager
TranslatorPermits == 8
ManagerPermits == 8

\* max_retries of the batch and chunk loops, and of translate_single_line
BatchRetries == 3
ChunkRetries == 3
SingleRetries == 2

IdleTask ==
    [op |-> "none", pc |-> "done", lines |-> <<>>, cb |-> FALSE, attempt |-> 0,
     api_key |-> None, req_key |-> None, text |-> <<>>, chunks |-> <<>>, ci |-> 0,
     pairs |-> <<>>, result |-> <<>>, progress |-> <<>>, log |-> <<>>]

\* a call that has just been made
NewTask(op, lines, cb) ==
    [IdleTask EXCEPT !.op = op, !.pc = "start", !.lines = lines, !.cb = cb]

InitTasksIdle ==
    /\ tk = [t \in Tasks |-> IdleTask]
    /\ genai_key = None
    /\ current_api_key = None
    /\ sem_tr = TranslatorPermits
    /\ sem_mgr = ManagerPermits
    /\ orphans = 0
    /\ groq_client = FALSE
    /\ fallback_api_key = None

\* ---------------------------------------------- guard round trip (SpecMath)
MathAlphabet == {"$", "x", "=", "1", " "}

RECURSIVE TextsUpTo(_, _)
TextsUpTo(A, n) ==
    IF n = 0 THEN {<<>>}
    ELSE LET shorter == TextsUpTo(A, n - 1)
         IN  shorter \cup {Append(t, c) : t \in {u \in shorter : Len(u) = n - 1}, c \in A}

InitMath ==
    /\ g_pc = "input"
    /\ g_text \in TextsUpTo(MathAlphabet, MaxTextLen)
    /\ g_masked = [text |-> <<>>, map |-> <<>>]
    /\ g_restored = <<>>
    /\ api_keys = <<>>
    /\ timers = [o \in ObjIds |-> 0]
    /\ next_obj = 0
    /\ last_call = NoCall
    /\ InitTasksIdle
    /\ InitBotIdle

\* mask: text_without_math, math_expressions = _extract_math_expressions(text)
GuardMask ==
    /\ g_pc = "input"
    /\ g_masked' = ExtractMathExpressions(g_text)
    /\ g_pc' = "masked"
    /\ UNCHANGED <<g_text, g_restored>>
    /\ UNCHANGED poolVars
    /\ UNCHANGED taskVars
    /\ UNCHANGED botVars

\* unmask, the translator having returned the masked text unchanged
GuardUnmask ==
    /\ g_pc = "masked"
    /\ g_restored' = RestoreMathExpressions(g_masked.text, g_masked.map)
    /\ g_pc' = "restored"
    /\ UNCHANGED <<g_text, g_masked>>
    /\ UNCHANGED poolVars
    /\ UNCHANGED taskVars
    /\ UNCHANGED botVars

NextMath == GuardMask \/ GuardUnmask

SpecMath == InitMath /\ [][NextMath]_vars

\* ------------------------------------------------- pool calls (SpecPool)
\* GEMINI_API_KEY and GEMINI_API_KEY_2 as the process finds them ("": not set)
Environments ==
    {<<"", "">>, <<"k1", "">>, <<"", "k2">>, <<"k1", "k2">>, <<"k1", "k1">>}

\* multi_api_manager = MultiAPIManager(); the keys MultiGeminiTranslatorManager
\* adds from the same environment are rejected as duplicates
InitPoolVars ==
    /\ \E env \in Environments : api_keys = LoadApiKeys(env, 1, <<>>)
    /\ timers = [o \in ObjIds |-> 0]
    /\ next_obj = Len(api_keys)
    /\ last_call = NoCall

InitGuardIdle ==
    /\ g_pc = "idle"
    /\ g_text = <<>>
    /\ g_masked = [text |-> <<>>, map |-> <<>>]
    /\ g_restored = <<>>

InitPool == InitGuardIdle /\ InitBotIdle /\ InitPoolVars /\ InitTasksIdle

\* a call of get_current_api_key
CallGetCurrentApiKey ==
    /\ \E out \in GetCurrentApiKey(api_keys) :
          /\ CanSelect(out)
          /\ api_keys' = out.keys
          /\ last_call' = [NoCall EXCEPT !.op = "get_current_api_key", !.ret = out.ret,
                                          !.reset = out.reset]
    /\ UNCHANGED <<timers, next_obj>>
    /\ UNCHANGED guardVars /\ UNCHANGED botVars
    /\ UNCHANGED taskVars

\* a call of mark_key_failed(api_key, error_message) from a running coroutine;
\* error_message only reaches the log line
CallMarkKeyFailed ==
    /\ \E api_key \in KeyVals, error_message \in ErrorMessages :
          /\ CanMarkKeyFailed(api_keys, timers, api_key)
          /\ api_keys' = MarkKeyFailed(api_keys, api_key)
          /\ timers' = MarkKeyFailedTimers(api_keys, timers, api_key)
          /\ last_call' = [NoCall EXCEPT !.op = "mark_key_failed",
                                          !.error_message = error_message]
    /\ UNCHANGED next_obj
    /\ UNCHANGED guardVars /\ UNCHANGED botVars
    /\ UNCHANGED taskVars

\* the _reactivate_key_after_delay task of one credential object wakes up
TimerFire(obj) ==
    /\ timers[obj] > 0
    /\ timers' = [timers EXCEPT ![obj] = @ - 1]
    /\ api_keys' = ReactivateKey(api_keys, obj)
    /\ last_call' = NoCall
    /\ UNCHANGED next_obj
    /\ UNCHANGED guardVars /\ UNCHANGED botVars
    /\ UNCHANGED taskVars

\* a _reactivate_key_after_delay task wakes up
TimerFires == \E obj \in ObjIds : TimerFire(obj)

\* a call of add_api_key(api_key)
CallAddApiKey ==
    /\ \E api_key \in KeyVals :
          LET out == AddApiKey(api_keys, api_key, next_obj + 1)
          IN  /\ out.ret => next_obj < MaxObjs
              /\ api_keys' = out.keys
              /\ next_obj' = IF out.ret THEN next_obj + 1 ELSE next_obj
              /\ last_call' = [NoCall EXCEPT !.op = "add_api_key", !.ret = ToString(out.ret)]
    /\ UNCHANGED timers
    /\ UNCHANGED guardVars /\ UNCHANGED botVars
    /\ UNCHANGED taskVars

\* a call of remove_api_key(key_name)
CallRemoveApiKey ==
    /\ \E key_name \in {"Primary", SecondaryName(2), ManualName(1), ManualName(2),
                        ManualName(3)} :
          LET out == RemoveApiKey(api_keys, key_name)
          IN  /\ api_keys' = out.keys
              /\ last_call' = [NoCall EXCEPT !.op = "remove_api_key", !.ret = ToString(out.ret)]
    /\ UNCHANGED <<timers, next_obj>>
    /\ UNCHANGED guardVars /\ UNCHANGED botVars
    /\ UNCHANGED taskVars

NextPool ==
    \/ CallGetCurrentApiKey
    \/ CallMarkKeyFailed
    \/ TimerFires
    \/ CallAddApiKey
    \/ CallRemoveApiKey

SpecPool == InitPool /\ [][NextPool]_vars

\* ------------------------------------------------ manager keys (SpecNames)
\* credentials ever created in a run of add_key and remove_key calls
MaxAdded == 3

\* MultiGeminiTranslatorManager.remove_key(api_key): the name of the first
\* credential with that secret is handed to remove_api_key
RemoveKey(keys, api_key) ==
    LET i == FirstWithKey(keys, api_key)
    IN  IF i = 0 THEN [keys |-> keys, ret |-> FALSE]
        ELSE RemoveApiKey(keys, keys[i].name)

AddKeyOp(api_key) == "add_key(" \o api_key \o ")"
RemoveKeyOp(api_key) == "remove_key(" \o api_key \o ")"

\* a call of MultiGeminiTranslatorManager.add_key(api_key): add_api_key with
\* the name f"Manual_{len(api_keys) + 1}"
CallAddKey ==
    /\ \E api_key \in KeyVals :
          LET out == AddApiKey(api_keys, api_key, next_obj + 1)
          IN  /\ out.ret => next_obj < MaxAdded
              /\ api_keys' = out.keys
              /\ next_obj' = IF out.ret THEN next_obj + 1 ELSE next_obj
              /\ last_call' = [NoCall EXCEPT !.op = AddKeyOp(api_key),
                                              !.ret = ToString(out.ret)]
    /\ UNCHANGED timers
    /\ UNCHANGED guardVars /\ UNCHANGED botVars
    /\ UNCHANGED taskVars

\* a call of MultiGeminiTranslatorManager.remove_key(api_key)
CallRemoveKey ==
    /\ \E api_key \in KeyVals :
          LET out == RemoveKey(api_keys, api_key)
          IN  /\ api_keys' = out.keys
              /\ last_call' = [NoCall EXCEPT !.op = RemoveKeyOp(api_key),
                                              !.ret = ToString(out.ret)]
    /\ UNCHANGED <<timers, next_obj>>
    /\ UNCHANGED guardVars /\ UNCHANGED botVars
    /\ UNCHANGED taskVars

NextNames ==
    \/ CallAddKey
    \/ CallRemoveKey

SpecNames == InitPool /\ [][NextNames]_vars

\* ------------------------------------------------ cooldown (SpecCooldown)
\* a pool of two credentials that are selected, reported and removed
InitCooldown ==
    /\ InitGuardIdle
    /\ InitBotIdle
    /\ InitTasksIdle
    /\ api_keys = LoadApiKeys(<<"k1", "k2">>, 1, <<>>)
    /\ timers = [o \in ObjIds |-> 0]
    /\ next_obj = Len(api_keys)
    /\ last_call = NoCall

NextCooldown ==
    \/ CallGetCurrentApiKey
    \/ CallMarkKeyFailed
    \/ TimerFires
    \/ CallRemoveApiKey

\* asyncio.sleep(delay_seconds) ends after the delay and the event loop then
\* runs the task: a pending reactivation does not wait forever
SpecCooldown ==
    /\ InitCooldown
    /\ [][NextCooldown]_vars
    /\ \A obj \in ObjIds : WF_vars(TimerFire(obj))

\* ------------------------------------------------ repeated failures (SpecRefail)
\* reactivation tasks pending for one credential when it fails again
MaxRefails == 2

\* a call of mark_key_failed(api_key, "Quota exceeded") on a credential that
\* may have reactivation tasks pending from earlier failures
CallMarkKeyFailedAgain ==
    /\ \E api_key \in KeyVals :
          LET i == FirstWithKey(api_keys, api_key)
          IN  /\ i # 0
              /\ timers[api_keys[i].obj] < MaxRefails
              /\ api_keys' = MarkKeyFailed(api_keys, api_key)
              /\ timers' = MarkKeyFailedTimers(api_keys, timers, api_key)
              /\ last_call' = [NoCall EXCEPT !.op = "mark_key_failed",
                                              !.error_message = "Quota exceeded"]
    /\ UNCHANGED next_obj
    /\ UNCHANGED guardVars /\ UNCHANGED botVars
    /\ UNCHANGED taskVars

\* Every task sleeps the same 300 seconds, so the tasks of one credential
\* wake up in the order of the failures that created them: TimerFire is the
\* oldest one, and the task of the most recent failure is still asleep while
\* another one is pending after it.
NextRefail ==
    \/ CallGetCurrentApiKey
    \/ CallMarkKeyFailedAgain
    \/ TimerFires

SpecRefail == InitCooldown /\ [][NextRefail]_vars

\* ------------------------------------------------------- provider behaviour
\* the translation a provider gives for line i, one symbol
Tr(i) == <<"tr" \o ToString(i)>>

\* a numbered answer "i. <translation>" for every line that is not blank,
\* the entry for line skip left out (skip = 0: none)
RECURSIVE NumberedFrom(_, _, _)
NumberedFrom(lines, k, skip) ==
    IF k > Len(lines) THEN <<>>
    ELSE (IF Strip(lines[k]) # <<>> /\ k # skip
          THEN Decimal(k) \o <<".", " ">> \o Tr(k) \o <<"\n">>
          ELSE <<>>) \o NumberedFrom(lines, k + 1, skip)

NonBlank(lines) == {k \in 1..Len(lines) : Strip(lines[k]) # <<>>}

FirstNonBlank(lines) ==
    IF NonBlank(lines) = {} THEN {}
    ELSE {CHOOSE k \in NonBlank(lines) : \A j \in NonBlank(lines) : k <= j}

\* the non-empty texts a provider may answer a batch prompt with: the full
\* numbered answer, one with an entry missing, a text without numbers
BatchResponses(lines) ==
    {NumberedFrom(lines, 1, 0), <<"t", "r", " ">>}
    \cup {NumberedFrom(lines, 1, k) : k \in FirstNonBlank(lines)}

\* the texts a provider may answer a chunk prompt with: a translation that
\* keeps every token of the prompt that is not a letter, or only whitespace
ChunkResponses(masked_text) ==
    {<<"tr">> \o SelectSeq(masked_text, LAMBDA c : c \in PlaceholderSet), <<" ">>}

\* the texts a provider may answer a single-line prompt with
LineResponses == {<<"tr", " ">>}

\* how a primary request can fail: response without text, quota error (429),
\* another error, asyncio.TimeoutError
AllFailures == {"empty", "quota", "error", "timeout"}

\* the failures of a request under the provider behaviour w of a
\* specification.  Without a key the client raises.
PrimaryFailures(req_key, w) ==
    IF req_key = None THEN {"error"} ELSE w.failures

\* the failed primary requests of a call so far
RECURSIVE Faults(_)
Faults(log) ==
    IF log = <<>> THEN 0
    ELSE (IF log[1] \in {"quota", "failed"} THEN 1 ELSE 0) + Faults(Tail(log))

\* "429" in error_str or "RESOURCE_EXHAUSTED" in error_str or "quota" in ...
IsQuotaError(f) == f = "quota"

\* what the log of a call keeps of a failed primary request
FailureLog(f) == IF IsQuotaError(f) THEN "quota" ELSE "failed"

\* how a Groq request can fail: no content, an exception
GroqFailures == {"empty", "error"}

\* ------------------------------------------------------ progress callbacks
\* A run of progress callbacks made one after the other: r = 0 when none
\* raises, r = k when the k-th raises.  Without a callback nothing is called.
CbOutcomes(task, calls) == IF task.cb THEN 0..Len(calls) ELSE {0}

AfterCb(task, calls, r) ==
    IF ~task.cb THEN task
    ELSE [task EXCEPT !.progress = @ \o (IF r = 0 THEN calls ELSE SubSeq(calls, 1, r))]

\* ------------------------------------------------ what every call does
Upd(t, rec) == tk' = [tk EXCEPT ![t] = rec]

Finish(task, result) == [task EXCEPT !.pc = "done", !.result = result]

Logged(task, entries) == [task EXCEPT !.log = @ \o entries]

\* the entries a selection leaves in the log of the call: the all-inactive
\* reset when it was made
SelectionLog(out) == IF out.reset THEN <<"reset">> ELSE <<>>

\* the call of get_current_api_key a translation makes
TaskSelects(out) ==
    /\ api_keys' = out.keys
    /\ UNCHANGED <<timers, next_obj, last_call>>

\* the call of mark_key_failed a translation makes on a quota error
TaskMarksFailed(api_key) ==
    /\ CanMarkKeyFailed(api_keys, timers, api_key)
    /\ api_keys' = MarkKeyFailed(api_keys, api_key)
    /\ timers' = MarkKeyFailedTimers(api_keys, timers, api_key)
    /\ UNCHANGED <<next_obj, last_call>>

\* the handlers "except Exception as e" of the three retry loops: the pool
\* hears of quota errors only
TaskFails(task, f) ==
    /\ Faults(task.log) < MaxFaults
    /\ IF IsQuotaError(f) THEN TaskMarksFailed(task.api_key) ELSE UNCHANGED poolVars

\* asyncio.wait_for gives up after the timeout; the thread started by
\* asyncio.to_thread is not stopped and its request stays in flight
ThreadLeft(f, w) ==
    /\ f = "timeout" => orphans < w.cap
    /\ orphans' = IF f = "timeout" THEN orphans + 1 ELSE orphans

\* ------------ MultiGeminiTranslatorManager.translate_batch_with_progress
\* a caller without the outer handler: the exception leaves the call
CallbackEscapes(task) == [task EXCEPT !.pc = "raised"]

\* lines 400-407: the outer handler takes the exception of a callback and
\* goes on with translate_batch_with_groq
CallbackRaised(task) == [task EXCEPT !.pc = "groq"]

\* lines 317-331: the empty input, the first two callbacks; an exception of a
\* callback goes to the outer handler, which calls translate_batch_with_groq
BatchStart(t) ==
    LET task == tk[t]
        calls == <<<<0, 100>>, <<20, 100>>>>
    IN  /\ task.op = "batch" /\ task.pc = "start"
        /\ IF task.lines = <<>>
           THEN Upd(t, Finish(task, <<>>))
           ELSE \E r \in CbOutcomes(task, calls) :
                   Upd(t, IF r = 0
                          THEN [AfterCb(task, calls, r) EXCEPT !.pc = "select"]
                          ELSE CallbackRaised(AfterCb(task, calls, r)))
        /\ UNCHANGED <<genai_key, current_api_key, sem_tr, sem_mgr, orphans,
                       groq_client, fallback_api_key>>
        /\ UNCHANGED poolVars
        /\ UNCHANGED guardVars /\ UNCHANGED botVars

\* lines 339-346: select a key; without one go to Groq; genai.configure.  With
\* a callback the request is sent after the callback's await, else at once.
BatchSelect(t) ==
    LET task == tk[t]
    IN  /\ task.op = "batch" /\ task.pc = "select"
        /\ \E out \in GetCurrentApiKey(api_keys) :
              LET sel == Logged([task EXCEPT !.api_key = out.ret], SelectionLog(out))
              IN  /\ TaskSelects(out)
                  /\ IF out.ret = None
                     THEN /\ Upd(t, [sel EXCEPT !.pc = "groq"])
                          /\ UNCHANGED genai_key
                     ELSE /\ genai_key' = out.ret
                          /\ IF task.cb
                             THEN Upd(t, [sel EXCEPT !.pc = "callback"])
                             ELSE Upd(t, Logged([sel EXCEPT !.req_key = out.ret,
                                                            !.pc = "request"],
                                                <<out.ret>>))
        /\ UNCHANGED <<current_api_key, sem_tr, sem_mgr, orphans, groq_client,
                       fallback_api_key>>
        /\ UNCHANGED guardVars /\ UNCHANGED botVars

\* a handler that starts another attempt after every failure
BatchFailedRetries(t, task, f) ==
    /\ TaskFails(task, f)
    /\ Upd(t, [Logged(task, <<FailureLog(f)>>) EXCEPT !.pc = "select", !.attempt = @ + 1])

\* lines 369-387: the handler of the retry loop, for attempt task.attempt
BatchFailed(t, task, f) ==
    /\ TaskFails(task, f)
    /\ Upd(t, IF task.attempt = BatchRetries - 1
              THEN [Logged(task, <<FailureLog(f)>>) EXCEPT !.pc = "groq"]
              ELSE [Logged(task, <<FailureLog(f)>>) EXCEPT !.pc = "select", !.attempt = @ + 1])

\* line 356: the callback of the attempt; it returns and the request is sent
\* with the key configured by then, or it raises into the loop's handler
BatchCallback(t) ==
    LET task == tk[t]
        called == AfterCb(task, <<<<40 + task.attempt * 20, 100>>>>, 0)
    IN  /\ task.op = "batch" /\ task.pc = "callback"
        /\ \/ /\ Upd(t, Logged([called EXCEPT !.req_key = genai_key, !.pc = "request"],
                               <<genai_key>>))
              /\ UNCHANGED poolVars
           \/ BatchFailed(t, called, "error")
        /\ UNCHANGED <<genai_key, current_api_key, sem_tr, sem_mgr, orphans,
                       groq_client, fallback_api_key>>
        /\ UNCHANGED guardVars /\ UNCHANGED botVars

\* lines 358-398: the request ends with a text, which is parsed between two
\* callbacks (an exception of a callback goes to the outer handler), or it
\* fails into the loop's handler
BatchResponse(t, w) ==
    LET task == tk[t]
        calls == <<<<80, 100>>, <<100, 100>>>>
    IN  /\ task.op = "batch" /\ task.pc = "request"
        /\ \/ /\ \E response \in BatchResponses(task.lines) :
                    \E r \in CbOutcomes(task, calls) :
                       Upd(t, IF r = 0
                              THEN Finish(AfterCb(task, calls, r),
                                          ParseBatchTranslation(task.lines, Strip(response)))
                              ELSE CallbackRaised(AfterCb(task, calls, r)))
              /\ UNCHANGED poolVars
              /\ UNCHANGED orphans
           \/ \E f \in PrimaryFailures(task.req_key, w) :
                 /\ BatchFailed(t, task, f)
                 /\ ThreadLeft(f, w)
        /\ UNCHANGED <<genai_key, current_api_key, sem_tr, sem_mgr, groq_client,
                       fallback_api_key>>
        /\ UNCHANGED guardVars /\ UNCHANGED botVars

\* a caller that answers the return of translate_batch_with_groq by calling
\* it again
BatchReturnsAgain(task, groq_result) == [task EXCEPT !.pc = "groq"]

\* lines 343, 376, 381-385, 403-407: what the caller does with groq_result.
\* lines is not empty here and translate_batch_with_groq returns one pair per
\* line, so the test "if groq_result" passes and translate_lines_fallback is
\* not reached.
BatchReturnsGroq(task, groq_result) ==
    IF groq_result # <<>> THEN Finish(task, groq_result)
    ELSE [task EXCEPT !.pc = "fallback"]

\* translate_batch_with_groq, lines 262-288: no client, else two callbacks
\* and the request
BatchGroqStart(t) ==
    LET task == tk[t]
        calls == <<<<0, 100>>, <<50, 100>>>>
    IN  /\ task.op = "batch" /\ task.pc = "groq"
        /\ IF ~groq_client
           THEN Upd(t, BatchReturnsGroq(task, PassThrough(task.lines)))
           ELSE \E r \in CbOutcomes(task, calls) :
                   Upd(t, IF r = 0
                          THEN Logged([AfterCb(task, calls, r) EXCEPT !.pc = "groq_request"],
                                      <<"groq">>)
                          ELSE BatchReturnsGroq(AfterCb(task, calls, r),
                                                PassThrough(task.lines)))
        /\ UNCHANGED <<genai_key, current_api_key, sem_tr, sem_mgr, orphans,
                       groq_client, fallback_api_key>>
        /\ UNCHANGED poolVars
        /\ UNCHANGED guardVars /\ UNCHANGED botVars

\* translate_batch_with_groq, lines 290-313: the answer is parsed and the last
\* callback made; no content or an exception gives the lines back
BatchGroqResponse(t) ==
    LET task == tk[t]
        calls == <<<<100, 100>>>>
    IN  /\ task.op = "batch" /\ task.pc = "groq_request"
        /\ \/ \E response \in BatchResponses(task.lines) :
                 \E r \in CbOutcomes(task, calls) :
                    Upd(t, BatchReturnsGroq(AfterCb(task, calls, r),
                              IF r = 0
                              THEN ParseBatchTranslation(task.lines, Strip(response))
                              ELSE PassThrough(task.lines)))
           \/ \E f \in GroqFailures :
                 Upd(t, BatchReturnsGroq(Logged(task, <<"groq_failed">>),
                                         PassThrough(task.lines)))
        /\ UNCHANGED <<genai_key, current_api_key, sem_tr, sem_mgr, orphans,
                       groq_client, fallback_api_key>>
        /\ UNCHANGED poolVars
        /\ UNCHANGED guardVars /\ UNCHANGED botVars

\* a call that left its "async with self.semaphore" block without giving the
\* permit back
SemaphoreKept(permits) == permits

\* the end of an "async with self.semaphore" block, however it is left:
\* Semaphore.__aexit__ calls release()
SemaphoreExit(permits) == permits + 1

\* ------------------ MultiGeminiTranslatorManager.translate_single_line
\* The call is made with one text, kept as the only line of the task; its
\* result is kept as the pair (text, returned string).
SingleResult(task, ret) == <<<<task.lines[1], ret>>>>

\* lines 200-208: the early returns, then "async with self.semaphore"
SingleStart(t) ==
    LET task == tk[t]
        clean_text == Strip(task.lines[1])
    IN  /\ task.op = "single" /\ task.pc = "start"
        /\ IF clean_text = <<>>
           THEN /\ Upd(t, Finish(task, SingleResult(task, <<>>)))
                /\ UNCHANGED sem_mgr
           ELSE IF Len(clean_text) < 2 \/ IsDigitStr(clean_text)
           THEN /\ Upd(t, Finish(task, SingleResult(task, clean_text)))
                /\ UNCHANGED sem_mgr
           ELSE /\ sem_mgr > 0
                /\ sem_mgr' = sem_mgr - 1
                /\ Upd(t, [task EXCEPT !.pc = "select"])
        /\ UNCHANGED <<genai_key, current_api_key, sem_tr, orphans, groq_client,
                       fallback_api_key>>
        /\ UNCHANGED poolVars
        /\ UNCHANGED guardVars /\ UNCHANGED botVars

\* lines 215-230: select a key; without one go to Groq; configure and send
SingleSelect(t) ==
    LET task == tk[t]
    IN  /\ task.op = "single" /\ task.pc = "select"
        /\ \E out \in GetCurrentApiKey(api_keys) :
              LET sel == Logged([task EXCEPT !.api_key = out.ret], SelectionLog(out))
              IN  /\ TaskSelects(out)
                  /\ IF out.ret = None
                     THEN /\ Upd(t, [sel EXCEPT !.pc = "groq"])
                          /\ UNCHANGED genai_key
                     ELSE /\ genai_key' = out.ret
                          /\ Upd(t, Logged([sel EXCEPT !.req_key = out.ret,
                                                       !.pc = "request"],
                                           <<out.ret>>))
        /\ UNCHANGED <<current_api_key, sem_tr, sem_mgr, orphans, groq_client,
                       fallback_api_key>>
        /\ UNCHANGED guardVars /\ UNCHANGED botVars

\* lines 232-251: the text of the response is returned (the semaphore is
\* released); a failure goes to the next attempt or, after the last, to Groq
SingleResponse(t, w) ==
    LET task == tk[t]
    IN  /\ task.op = "single" /\ task.pc = "request"
        /\ \/ /\ \E response \in LineResponses :
                    Upd(t, Finish(task, SingleResult(task, Strip(response))))
              /\ sem_mgr' = SemaphoreExit(sem_mgr)
              /\ UNCHANGED poolVars
              /\ UNCHANGED orphans
           \/ \E f \in PrimaryFailures(task.req_key, w) :
                 /\ TaskFails(task, f)
                 /\ ThreadLeft(f, w)
                 /\ Upd(t, IF task.attempt = SingleRetries - 1
                           THEN [Logged(task, <<FailureLog(f)>>) EXCEPT !.pc = "groq"]
                           ELSE [Logged(task, <<FailureLog(f)>>) EXCEPT
                                    !.pc = "select", !.attempt = @ + 1])
                 /\ UNCHANGED sem_mgr
        /\ UNCHANGED <<genai_key, current_api_key, sem_tr, groq_client,
                       fallback_api_key>>
        /\ UNCHANGED guardVars /\ UNCHANGED botVars

\* translate_with_groq, lines 168-169: without a client the text comes back
SingleGroq(t) ==
    LET task == tk[t]
        clean_text == Strip(task.lines[1])
    IN  /\ task.op = "single" /\ task.pc = "groq"
        /\ IF ~groq_client
           THEN /\ Upd(t, Finish(task, SingleResult(task, clean_text)))
                /\ sem_mgr' = SemaphoreExit(sem_mgr)
           ELSE /\ Upd(t, Logged([task EXCEPT !.pc = "groq_request"], <<"groq">>))
                /\ UNCHANGED sem_mgr
        /\ UNCHANGED <<genai_key, current_api_key, sem_tr, orphans, groq_client,
                       fallback_api_key>>
        /\ UNCHANGED poolVars
        /\ UNCHANGED guardVars /\ UNCHANGED botVars

\* translate_with_groq, lines 171-196: the content, or the text given
SingleGroqResponse(t) ==
    LET task == tk[t]
        clean_text == Strip(task.lines[1])
    IN  /\ task.op = "single" /\ task.pc = "groq_request"
        /\ \/ \E response \in LineResponses :
                 Upd(t, Finish(task, SingleResult(task, Strip(response))))
           \/ \E f \in GroqFailures :
                 Upd(t, Finish(Logged(task, <<"groq_failed">>),
                               SingleResult(task, clean_text)))
        /\ sem_mgr' = SemaphoreExit(sem_mgr)
        /\ UNCHANGED <<genai_key, current_api_key, sem_tr, orphans, groq_client,
                       fallback_api_key>>
        /\ UNCHANGED poolVars
        /\ UNCHANGED guardVars /\ UNCHANGED botVars

\* ---------------------------------------- GeminiTranslator.translate_lines
\* line 51: the chunks; without chunks the loop is skipped
DocStart(t) ==
    LET task == tk[t]
        chunks == CreateSmartChunks(task.lines)
    IN  /\ task.op = "doc" /\ task.pc = "start"
        /\ Upd(t, IF chunks = <<>> THEN Finish(task, <<>>)
                  ELSE [task EXCEPT !.chunks = chunks, !.ci = 1, !.pc = "acquire"])
        /\ UNCHANGED <<genai_key, current_api_key, sem_tr, sem_mgr, orphans,
                       groq_client, fallback_api_key>>
        /\ UNCHANGED poolVars
        /\ UNCHANGED guardVars /\ UNCHANGED botVars

\* _translate_chunk_with_math_preservation, line 222
DocAcquire(t) ==
    LET task == tk[t]
    IN  /\ task.op = "doc" /\ task.pc = "acquire"
        /\ sem_tr > 0
        /\ sem_tr' = sem_tr - 1
        /\ Upd(t, [task EXCEPT !.attempt = 0, !.pc = "select"])
        /\ UNCHANGED <<genai_key, current_api_key, sem_mgr, orphans, groq_client,
                       fallback_api_key>>
        /\ UNCHANGED poolVars
        /\ UNCHANGED guardVars /\ UNCHANGED botVars

\* lines 228-256: the key of the pool or the fallback key; genai.configure
\* only when the key differs from the one this object configured last; the
\* request goes out with the key the library holds
DocSelect(t) ==
    LET task == tk[t]
    IN  /\ task.op = "doc" /\ task.pc = "select"
        /\ \E out \in GetCurrentApiKey(api_keys) :
              LET api_key == IF out.ret = None THEN fallback_api_key ELSE out.ret
                  configured == IF api_key # current_api_key THEN api_key ELSE genai_key
              IN  /\ TaskSelects(out)
                  /\ genai_key' = configured
                  /\ current_api_key' = api_key
                  /\ Upd(t, Logged([task EXCEPT !.api_key = api_key,
                                                !.req_key = configured,
                                                !.pc = "request"],
                                   SelectionLog(out) \o <<configured>>))
        /\ UNCHANGED <<sem_tr, sem_mgr, orphans, groq_client, fallback_api_key>>
        /\ UNCHANGED guardVars /\ UNCHANGED botVars

\* a loop that puts the pairs of a chunk before those it already has
DocChunkDoneFirst(task, chunk_results) ==
    LET translated_pairs == chunk_results \o task.pairs
    IN  IF task.ci = Len(task.chunks)
        THEN Finish([task EXCEPT !.pairs = translated_pairs], translated_pairs)
        ELSE [task EXCEPT !.pairs = translated_pairs, !.ci = @ + 1, !.pc = "acquire"]

\* translate_lines, lines 55-62: the pairs of the chunk are appended; after
\* the last chunk the pairs are returned
DocChunkDone(task, chunk_results) ==
    LET translated_pairs == task.pairs \o chunk_results
    IN  IF task.ci = Len(task.chunks)
        THEN Finish([task EXCEPT !.pairs = translated_pairs], translated_pairs)
        ELSE [task EXCEPT !.pairs = translated_pairs, !.ci = @ + 1, !.pc = "acquire"]

\* lines 276-281 and 286-291: the local dictionary, line by line
LocalChunk(chunk) == [k \in 1..Len(chunk) |-> <<chunk[k], LocalTranslateText(chunk[k])>>]

\* lines 258-293: a response with text gives one pair for the chunk; a
\* failure goes to the next attempt or, after the last, to the dictionary
DocResponse(t, w) ==
    LET task == tk[t]
        chunk == task.chunks[task.ci]
        combined_text == Join(<<" ">>, chunk)
        masked == ExtractMathExpressions(combined_text)
    IN  /\ task.op = "doc" /\ task.pc = "request"
        /\ \/ /\ \E response \in ChunkResponses(masked.text) :
                    Upd(t, DocChunkDone(task,
                              <<<<combined_text,
                                  RestoreMathExpressions(Strip(response), masked.map)>>>>))
              /\ sem_tr' = SemaphoreExit(sem_tr)
              /\ UNCHANGED poolVars
              /\ UNCHANGED orphans
           \/ \E f \in PrimaryFailures(task.req_key, w) :
                 /\ TaskFails(task, f)
                 /\ ThreadLeft(f, w)
                 /\ IF task.attempt = ChunkRetries - 1
                    THEN /\ Upd(t, DocChunkDone(Logged(task, <<FailureLog(f), "local">>),
                                                LocalChunk(chunk)))
                         /\ sem_tr' = SemaphoreExit(sem_tr)
                    ELSE /\ Upd(t, [Logged(task, <<FailureLog(f)>>) EXCEPT !.attempt = @ + 1,
                                                                           !.pc = "select"])
                         /\ UNCHANGED sem_tr
        /\ UNCHANGED <<genai_key, current_api_key, sem_mgr, groq_client,
                       fallback_api_key>>
        /\ UNCHANGED guardVars /\ UNCHANGED botVars

\* a worker thread left behind by a timeout ends
ThreadEnds ==
    /\ orphans > 0
    /\ orphans' = orphans - 1
    /\ UNCHANGED <<tk, genai_key, current_api_key, sem_tr, sem_mgr, groq_client,
                   fallback_api_key>>
    /\ UNCHANGED poolVars
    /\ UNCHANGED guardVars /\ UNCHANGED botVars

TaskStep(t, w) ==
    \/ BatchStart(t)
    \/ BatchSelect(t)
    \/ BatchCallback(t)
    \/ BatchResponse(t, w)
    \/ BatchGroqStart(t)
    \/ BatchGroqResponse(t)
    \/ SingleStart(t)
    \/ SingleSelect(t)
    \/ SingleResponse(t, w)
    \/ SingleGroq(t)
    \/ SingleGroqResponse(t)
    \/ DocStart(t)
    \/ DocAcquire(t)
    \/ DocSelect(t)
    \/ DocResponse(t, w)

\* ------------------------------------------------ one call at a time (Spec)
\* the lines a document can hold: empty, blank, a dictionary word, an equation
LineVals == {<<>>, <<" ">>, <<"o", "r">>, <<"x", "=", "1">>}

\* the lines of a batch differ in being blank or text (the empty line takes
\* the branches of the blank one); those of a document, which are stripped
\* first, in being empty, text or an equation
BatchLineVals == {<<" ">>, <<"o", "r">>}
DocLineVals == LineVals \ {<<" ">>}

RECURSIVE LinesUpTo(_, _)
LinesUpTo(n, vals) ==
    IF n = 0 THEN {<<>>}
    ELSE LET shorter == LinesUpTo(n - 1, vals)
         IN  shorter \cup {Append(l, v) : l \in {u \in shorter : Len(u) = n - 1},
                                          v \in vals}

\* the calls bot_handlers makes: translate_lines_with_progress with and
\* without a callback, translate_lines, translate_single_line
Calls ==
    {NewTask("batch", lines, cb) : lines \in LinesUpTo(MaxLines, BatchLineVals),
                                   cb \in BOOLEAN}
    \cup {NewTask("doc", lines, FALSE) : lines \in LinesUpTo(MaxLines, DocLineVals)}
    \cup {NewTask("single", <<text>>, FALSE) : text \in LineVals}

\* the environments of a call: no key, one key, two keys; a document of
\* several chunks is translated with one key at most
CallEnvironments(op) ==
    {<<"", "">>, <<"k1", "">>} \cup (IF op = "doc" THEN {} ELSE {<<"k1", "k2">>})

\* config.GEMINI_API_KEY, which bot_handlers passes to GeminiTranslator
ConfigKey(env) == IF env[1] = "" THEN None ELSE env[1]

InitShared(envs) ==
    /\ InitGuardIdle
    /\ InitBotIdle
    /\ \E env \in envs :
          /\ api_keys = LoadApiKeys(env, 1, <<>>)
          /\ fallback_api_key = ConfigKey(env)
    /\ timers = [o \in ObjIds |-> 0]
    /\ next_obj = Len(api_keys)
    /\ last_call = NoCall
    /\ genai_key = None
    /\ current_api_key = None
    /\ sem_tr = TranslatorPermits
    /\ sem_mgr = ManagerPermits
    /\ orphans = 0

InitOneCall ==
    /\ \E call \in Calls :
          /\ InitShared(CallEnvironments(call.op))
          /\ tk = [t \in Tasks |-> IF t = 1 THEN call ELSE IdleTask]
          /\ groq_client \in (IF call.op = "doc" THEN {FALSE} ELSE BOOLEAN)

\* the providers of one call: every failure; one abandoned thread at a time
OneCallWorld == [cap |-> MaxPending, failures |-> AllFailures]

Next ==
    \/ \E t \in Tasks : TaskStep(t, OneCallWorld)
    \/ TimerFires
    \/ ThreadEnds

Spec == InitOneCall /\ [][Next]_vars

\* ------------------------ GeminiTranslator._translate_batch (SpecTranslateBatch)
\* lines 102-116: the response is split into lines; line i of the response,
\* without its number when it holds "i.", is the translation of line i, and
\* a line without a response line is paired with itself
TranslateBatchPairs(lines, text) ==
    LET translated_lines == SplitOn(Strip(text), <<"\n">>)
    IN  [i \in 1..Len(lines) |->
            IF i <= Len(translated_lines)
            THEN LET translated == translated_lines[i]
                     number == Decimal(i) \o <<".">>
                     at == FindFrom(translated, number, 1)
                 IN  <<lines[i],
                       IF at # 0
                       THEN Strip(Slice(translated, at + Len(number), Len(translated)))
                       ELSE translated>>
            ELSE <<lines[i], lines[i]>>]

\* line 71: max_retries of _translate_batch
TranslateBatchRetries == 3

\* line 70: async with self.semaphore
TranslateBatchAcquire(t) ==
    LET task == tk[t]
    IN  /\ task.op = "_translate_batch" /\ task.pc = "start"
        /\ sem_tr > 0
        /\ sem_tr' = sem_tr - 1
        /\ Upd(t, [task EXCEPT !.attempt = 0, !.pc = "select"])
        /\ UNCHANGED <<genai_key, current_api_key, sem_mgr, orphans, groq_client,
                       fallback_api_key>>
        /\ UNCHANGED poolVars
        /\ UNCHANGED guardVars /\ UNCHANGED botVars

\* lines 74-82: the key of the pool or the fallback key; genai.configure only
\* when the key differs from the one this object configured last
TranslateBatchSelect(t) ==
    LET task == tk[t]
    IN  /\ task.op = "_translate_batch" /\ task.pc = "select"
        /\ \E out \in GetCurrentApiKey(api_keys) :
              LET api_key == IF out.ret = None THEN fallback_api_key ELSE out.ret
                  configured == IF api_key # current_api_key THEN api_key ELSE genai_key
              IN  /\ TaskSelects(out)
                  /\ genai_key' = configured
                  /\ current_api_key' = api_key
                  /\ Upd(t, Logged([task EXCEPT !.api_key = api_key,
                                                !.req_key = configured,
                                                !.pc = "request"],
                                   SelectionLog(out) \o <<configured>>))
        /\ UNCHANGED <<sem_tr, sem_mgr, orphans, groq_client, fallback_api_key>>
        /\ UNCHANGED guardVars /\ UNCHANGED botVars

\* lines 125 and 132: local_translator.translate_lines(batch); _translate_batch
\* has no name batch (its parameter is lines, the module has no such global),
\* so evaluating the argument raises NameError inside the except clause and
\* the exception leaves _translate_batch
TranslateBatchLastFailure(task) ==
    [Logged(task, <<"NameError">>) EXCEPT !.pc = "raised"]

\* lines 93-136: a response with text gives the pairs; a failure goes to the
\* next attempt after asyncio.sleep(1) or, on the last attempt, to the
\* handler's fallback
TranslateBatchResponse(t, w) ==
    LET task == tk[t]
    IN  /\ task.op = "_translate_batch" /\ task.pc = "request"
        /\ \/ /\ \E response \in BatchResponses(task.lines) :
                    /\ response # <<>>
                    /\ Upd(t, Finish(task, TranslateBatchPairs(task.lines, response)))
              /\ sem_tr' = SemaphoreExit(sem_tr)
              /\ UNCHANGED poolVars
              /\ UNCHANGED orphans
           \/ \E f \in PrimaryFailures(task.req_key, w) :
                 /\ TaskFails(task, f)
                 /\ ThreadLeft(f, w)
                 /\ IF task.attempt = TranslateBatchRetries - 1
                    THEN /\ Upd(t, TranslateBatchLastFailure(Logged(task, <<FailureLog(f)>>)))
                         /\ sem_tr' = SemaphoreExit(sem_tr)
                    ELSE /\ Upd(t, [Logged(task, <<FailureLog(f)>>) EXCEPT !.attempt = @ + 1,
                                                                           !.pc = "select"])
                         /\ UNCHANGED sem_tr
        /\ UNCHANGED <<genai_key, current_api_key, sem_mgr, groq_client,
                       fallback_api_key>>
        /\ UNCHANGED guardVars /\ UNCHANGED botVars

\* _translate_batch called with every batch of lines, with no key, one key
\* and two keys in the environment
InitTranslateBatch ==
    /\ InitShared({<<"", "">>, <<"k1", "">>, <<"k1", "k2">>})
    /\ groq_client = FALSE
    /\ \E lines \in LinesUpTo(MaxLines, BatchLineVals) :
          tk = [t \in Tasks |-> IF t = 1 THEN NewTask("_translate_batch", lines, FALSE)
                                ELSE IdleTask]

NextTranslateBatch ==
    \/ \E t \in Tasks : \/ TranslateBatchAcquire(t)
                        \/ TranslateBatchSelect(t)
                        \/ TranslateBatchResponse(t, OneCallWorld)
    \/ TimerFires
    \/ ThreadEnds

SpecTranslateBatch == InitTranslateBatch /\ [][NextTranslateBatch]_vars

\* ------------------------------------------- scheduling (SpecScheduled)
\* the steps of a call that the event loop is bound to run: code between two
\* awaits, and the awaits whose wait is bounded, which are the permits of a
\* free gate, the sleeps between attempts and the Gemini requests under
\* asyncio.wait_for; the awaits of a Groq request have no bound and are not
\* among them
BoundedStep(t) ==
    \/ BatchStart(t)
    \/ BatchSelect(t)
    \/ BatchCallback(t)
    \/ BatchResponse(t, OneCallWorld)
    \/ BatchGroqStart(t)
    \/ SingleStart(t)
    \/ SingleSelect(t)
    \/ SingleResponse(t, OneCallWorld)
    \/ SingleGroq(t)
    \/ DocStart(t)
    \/ DocAcquire(t)
    \/ DocSelect(t)
    \/ DocResponse(t, OneCallWorld)

SpecScheduled == Spec /\ \A t \in Tasks : WF_vars(BoundedStep(t))

\* ------------------------------------------- every request ends (SpecReturns)
\* one call of translate_lines_with_progress or of translate_lines whose
\* requests all end: the Gemini requests by asyncio.wait_for, the Groq
\* requests by assumption
ReturnCalls ==
    {NewTask("batch", lines, cb) : lines \in {<<<<"o", "r">>>>, <<<<" ">>, <<"o", "r">>>>},
                                   cb \in BOOLEAN}
    \cup {NewTask("doc", lines, FALSE) : lines \in {<<<<"o", "r">>>>,
                                                    <<<<"o", "r", ".">>, <<"o", "r">>>>}}

\* the environments of these calls: no key or one key; the document of two
\* chunks is translated without a key
ReturnEnvironments(call) ==
    IF Len(call.lines) = 2 /\ call.op = "doc" THEN {<<"", "">>}
    ELSE {<<"", "">>, <<"k1", "">>}

InitReturns ==
    /\ \E call \in ReturnCalls :
          /\ InitShared(ReturnEnvironments(call))
          /\ tk = [t \in Tasks |-> IF t = 1 THEN call ELSE IdleTask]
          /\ groq_client \in (IF call.op = "doc" THEN {FALSE} ELSE BOOLEAN)

ReturnStep(t) ==
    \/ BatchStart(t)
    \/ BatchSelect(t)
    \/ BatchCallback(t)
    \/ BatchResponse(t, OneCallWorld)
    \/ BatchGroqStart(t)
    \/ BatchGroqResponse(t)
    \/ DocStart(t)
    \/ DocAcquire(t)
    \/ DocSelect(t)
    \/ DocResponse(t, OneCallWorld)

NextReturns ==
    \/ \E t \in Tasks : ReturnStep(t)
    \/ TimerFires
    \/ ThreadEnds

\* the event loop runs a call that can go on; a request that is out ends
SpecReturns ==
    InitReturns /\ [][NextReturns]_vars /\ WF_vars(\E t \in Tasks : ReturnStep(t))

\* ------------------------------------------- cancellation (SpecPermits)
\* whether a call is inside the "async with self.semaphore" block of
\* _translate_chunk_with_math_preservation or of translate_single_line
InsideGate(task) ==
    /\ task.op \in {"doc", "single"}
    /\ task.pc \in {"select", "request", "groq", "groq_request"}

\* whether a call is suspended at an await: a provider request, the sleep
\* after a failed attempt, the sleep between two chunks
Suspended(task) ==
    \/ task.pc \in {"request", "groq_request"}
    \/ task.pc = "select" /\ task.attempt > 0
    \/ task.op = "doc" /\ task.pc = "acquire" /\ task.ci > 1

\* what "except Exception" would do with the cancellation of a chunk if
\* CancelledError were an Exception: the chunk falls back to the dictionary
\* and translate_lines goes on with the next chunk
CancelledCaught(task) ==
    IF task.op = "doc" /\ task.pc = "request"
    THEN DocChunkDone(Logged(task, <<"cancelled", "local">>), LocalChunk(task.chunks[task.ci]))
    ELSE Logged([task EXCEPT !.pc = "cancelled"], <<"cancelled">>)

\* CancelledError is a BaseException: neither the handler of
\* _translate_chunk_with_math_preservation (line 283) nor the one of
\* translate_lines (line 64) catches it, the call ends where it was
Cancelled(task) == Logged([task EXCEPT !.pc = "cancelled"], <<"cancelled">>)

\* the task of a call is cancelled: CancelledError is raised at the await,
\* passes the handlers "except Exception" and leaves the call through the
\* "async with" block when the call is inside it; the thread of a Gemini
\* request goes on
Cancel(t) ==
    LET task == tk[t]
        inflight == task.pc = "request" /\ task.req_key # None
    IN  /\ task.op \in {"doc", "single"}
        /\ Suspended(task)
        /\ Upd(t, Cancelled(task))
        /\ sem_tr' = IF task.op = "doc" /\ InsideGate(task)
                     THEN SemaphoreExit(sem_tr) ELSE sem_tr
        /\ sem_mgr' = IF task.op = "single" /\ InsideGate(task)
                      THEN SemaphoreExit(sem_mgr) ELSE sem_mgr
        /\ inflight => orphans < MaxPending
        /\ orphans' = IF inflight THEN orphans + 1 ELSE orphans
        /\ UNCHANGED <<genai_key, current_api_key, groq_client, fallback_api_key>>
        /\ UNCHANGED poolVars
        /\ UNCHANGED guardVars /\ UNCHANGED botVars

\* two concurrent calls of the gated functions, on one line or on two lines
\* that make two chunks
PermitCalls ==
    {NewTask("doc", lines, FALSE) : lines \in {<<<<"o", "r">>>>,
                                                 <<<<"o", "r", ".">>, <<"o", "r">>>>}}
    \cup {NewTask("single", <<<<"o", "r">>>>, FALSE)}

InitPermits ==
    /\ InitShared({<<"k1", "">>})
    /\ groq_client \in BOOLEAN
    /\ \E first \in PermitCalls, second \in PermitCalls :
          tk = [t \in Tasks |-> IF t = 1 THEN first ELSE IF t = 2 THEN second
                                ELSE IdleTask]

\* the providers of these calls: a request is answered or raises
PermitWorld == [cap |-> MaxPending, failures |-> {"error"}]

PermitStep(t) ==
    \/ SingleStart(t)
    \/ SingleSelect(t)
    \/ SingleResponse(t, PermitWorld)
    \/ SingleGroq(t)
    \/ SingleGroqResponse(t)
    \/ DocStart(t)
    \/ DocAcquire(t)
    \/ DocSelect(t)
    \/ DocResponse(t, PermitWorld)
    \/ Cancel(t)

NextPermits ==
    \/ \E t \in Tasks : PermitStep(t)
    \/ ThreadEnds

SpecPermits == InitPermits /\ [][NextPermits]_vars

\* ------------------------------------------------ two keys (SpecKeys)
\* GeminiTranslator.translate_lines and
\* MultiGeminiTranslatorManager.translate_single_line in use at the same time
\* on a pool of two keys, both configuring the one google.generativeai module
InitKeys ==
    /\ InitShared({<<"k1", "k2">>})
    /\ groq_client = FALSE
    /\ tk = [t \in Tasks |-> IF t = 1 THEN NewTask("doc", <<<<"o", "r">>>>, FALSE)
                             ELSE IF t = 2 THEN NewTask("single", <<<<"o", "r">>>>, FALSE)
                             ELSE IdleTask]

\* the provider of these calls: a request is answered or hits the quota
KeysWorld == [cap |-> MaxPending, failures |-> {"quota"}]

KeysStep(t) ==
    \/ SingleStart(t)
    \/ SingleSelect(t)
    \/ SingleResponse(t, KeysWorld)
    \/ SingleGroq(t)
    \/ DocStart(t)
    \/ DocAcquire(t)
    \/ DocSelect(t)
    \/ DocResponse(t, KeysWorld)

NextKeys ==
    \/ \E t \in Tasks : KeysStep(t)
    \/ TimerFires

SpecKeys == InitKeys /\ [][NextKeys]_vars

\* --------------------------------------------- concurrent calls (SpecGate)
\* every handler of the bot runs its call as a task of one event loop
GateLine == <<"o", "r">>

GateCalls ==
    {NewTask("batch", <<GateLine>>, FALSE), NewTask("doc", <<GateLine>>, FALSE),
     NewTask("single", <<GateLine>>, FALSE)}

InitGate ==
    /\ InitShared({<<"k1", "">>})
    /\ groq_client = FALSE
    /\ tk \in [Tasks -> GateCalls]

\* requests to the primary provider in flight: those the calls wait for and
\* those still running in threads whose call has given up on them.  The
\* threads are those of the loop's default executor, min(32, cpu_count + 4)
\* of them: more than 8 on a host with five CPUs or more.
InFlight ==
    Cardinality({t \in Tasks : tk[t].pc = "request" /\ tk[t].req_key # None}) + orphans

\* the providers of the concurrent calls: a request is answered or times
\* out, and every abandoned thread may still be running
GateWorld == [cap |-> NumTasks * BatchRetries, failures |-> {"timeout"}]

\* the steps of calls made without a callback and without a Groq client
GateStep(t) ==
    \/ BatchStart(t)
    \/ BatchSelect(t)
    \/ BatchResponse(t, GateWorld)
    \/ BatchGroqStart(t)
    \/ SingleStart(t)
    \/ SingleSelect(t)
    \/ SingleResponse(t, GateWorld)
    \/ SingleGroq(t)
    \/ DocStart(t)
    \/ DocAcquire(t)
    \/ DocSelect(t)
    \/ DocResponse(t, GateWorld)

NextGate ==
    \/ \E t \in Tasks : GateStep(t)
    \/ ThreadEnds

SpecGate == InitGate /\ [][NextGate]_vars

\* ----------------------------------------- chunker and parser (SpecUnits)
\* the lines given to the chunker: long lists of empty lines, text, a
\* sentence and an equation, and short lists that also hold blank lines,
\* padded text and every closing punctuation
MaxUnitLines == 6

CoreLineVals == {<<>>, <<"o", "r">>, <<"o", "r", ".">>, <<"x", "=", "1">>}
RichLineVals ==
    CoreLineVals \cup {<<" ">>, <<" ", "o", "r", " ">>, <<"o", "r", "!">>,
                       <<"o", "r", "?">>, <<"o", "r", ":">>}

ChunkInputs == LinesUpTo(MaxUnitLines, CoreLineVals) \cup LinesUpTo(MaxLines, RichLineVals)

\* a call of _create_smart_chunks(lines); the chunks are kept as returned
CallCreateSmartChunks(t) ==
    LET task == tk[t]
    IN  /\ task.op = "chunks" /\ task.pc = "start"
        /\ Upd(t, [task EXCEPT !.chunks = CreateSmartChunks(task.lines), !.pc = "done"])
        /\ UNCHANGED <<genai_key, current_api_key, sem_tr, sem_mgr, orphans,
                       groq_client, fallback_api_key>>
        /\ UNCHANGED poolVars
        /\ UNCHANGED guardVars /\ UNCHANGED botVars

\* the lines and the response texts given to the parser: for every line the
\* response holds its entry "n. text", a line that is no entry, or nothing,
\* in the order of the lines or in the opposite order
MaxParseLines == 3

EntryModes == {"entry", "other", "none"}

ResponseLine(n, mode) ==
    IF mode = "entry" THEN Decimal(n) \o <<".", " ">> \o Tr(n) \o <<"\n">>
    ELSE IF mode = "other" THEN Decimal(n) \o <<")", " ">> \o Tr(n) \o <<"\n">>
    ELSE <<>>

RECURSIVE ResponseText(_, _, _)
ResponseText(modes, k, reversed) ==
    IF k > Len(modes) THEN <<>>
    ELSE IF reversed
         THEN ResponseText(modes, k + 1, reversed) \o ResponseLine(k, modes[k])
         ELSE ResponseLine(k, modes[k]) \o ResponseText(modes, k + 1, reversed)

ParseCalls ==
    UNION {{[NewTask("parse", lines, FALSE) EXCEPT !.text = ResponseText(modes, 1, reversed)] :
               modes \in [1..Len(lines) -> EntryModes], reversed \in BOOLEAN} :
           lines \in LinesUpTo(MaxParseLines, BatchLineVals)}

\* a call of _parse_batch_translation(original_lines, translated_text)
CallParseBatchTranslation(t) ==
    LET task == tk[t]
    IN  /\ task.op = "parse" /\ task.pc = "start"
        /\ Upd(t, Finish(task, ParseBatchTranslation(task.lines, task.text)))
        /\ UNCHANGED <<genai_key, current_api_key, sem_tr, sem_mgr, orphans,
                       groq_client, fallback_api_key>>
        /\ UNCHANGED poolVars
        /\ UNCHANGED guardVars /\ UNCHANGED botVars

InitUnits ==
    /\ InitShared({<<"", "">>})
    /\ groq_client = FALSE
    /\ \E call \in {NewTask("chunks", lines, FALSE) : lines \in ChunkInputs} \cup ParseCalls :
          tk = [t \in Tasks |-> IF t = 1 THEN call ELSE IdleTask]

NextUnits ==
    \E t \in Tasks : CallCreateSmartChunks(t) \/ CallParseBatchTranslation(t)

SpecUnits == InitUnits /\ [][NextUnits]_vars

\* ------------------------------------------------------ GroqBatchTranslator
\* what the request of translate_text_batch ends with: a completion with
\* content, a completion without, an exception
GroqOutcome(kind, content) == [kind |-> kind, content |-> content]

\* GroqAPIManager.translate_text_batch(text): without a client or for a blank
\* text the text itself; the stripped content of the completion; the text
\* itself when there is no content or the request raises
TranslateTextBatch(text, client, outcome) ==
    IF ~client \/ Strip(text) = <<>> THEN text
    ELSE IF outcome.kind = "content" /\ outcome.content # <<>> THEN Strip(outcome.content)
    ELSE text

\* a pairing that stops at the shorter of the two lists
TranslateLinesBatchZip(lines, client, outcome) ==
    LET translated_text == TranslateTextBatch(Join(<<"\n">>, lines), client, outcome)
        translated_lines == SplitOn(translated_text, <<"\n">>)
    IN  [i \in 1..Min({Len(lines), Len(translated_lines)}) |->
            <<lines[i], translated_lines[i]>>]

\* GroqAPIManager.translate_lines_batch(lines), which
\* GroqBatchTranslator.translate_lines returns: the lines are joined by
\* newlines, translated as one text, and the answer split at its newlines
TranslateLinesBatch(lines, client, outcome) ==
    IF lines = <<>> THEN <<>>
    ELSE LET combined_text == Join(<<"\n">>, lines)
             translated_text == TranslateTextBatch(combined_text, client, outcome)
             translated_lines == SplitOn(translated_text, <<"\n">>)
         IN  [i \in 1..Len(lines) |->
                 <<lines[i], IF i <= Len(translated_lines) THEN translated_lines[i]
                             ELSE lines[i]>>]

\* ------------------------------------------------ pure calls (SpecPure)
\* the secrets whose status is asked for, as texts: letters only, stars
\* only, and letters around three dots, of every length up to MaxSecretLen
MaxSecretLen == 18

Repeat(c, n) == [k \in 1..n |-> c]

SecretVals ==
    {Repeat("a", n) : n \in 1..MaxSecretLen}
    \cup {Repeat("*", n) : n \in 1..MaxSecretLen}
    \cup {Repeat("a", pq[1]) \o <<".", ".", ".">> \o Repeat("a", pq[2]) :
             pq \in {x \in (0..MaxSecretLen) \X (0..MaxSecretLen) :
                        x[1] + x[2] + 3 <= MaxSecretLen}}

StatusCalls == {NewTask("status", <<key>>, FALSE) : key \in SecretVals}

\* a call of get_status() on a pool that holds one credential; the 'key'
\* entry of its keys_info is kept
CallGetStatus(t) ==
    LET task == tk[t]
    IN  /\ task.op = "status" /\ task.pc = "start"
        /\ Upd(t, Finish(task, <<MaskedKey(task.lines[1])>>))
        /\ UNCHANGED <<genai_key, current_api_key, sem_tr, sem_mgr, orphans,
                       groq_client, fallback_api_key>>
        /\ UNCHANGED poolVars
        /\ UNCHANGED guardVars /\ UNCHANGED botVars

\* the texts given to the local dictionary: empty, blank, a word of the
\* dictionary bare, in capitals, padded or with punctuation, the phrase of the
\* phrase dictionary, an unknown word, punctuation alone
LocalTextVals ==
    {<<>>, <<" ">>, <<"\n">>, <<"o", "r">>, <<"O", "r">>, <<" ", "o", "r", ".", " ">>,
     <<"(", "o", "r", ")">>, <<"t", "h", "a", "n", "k", " ", "y", "o", "u">>,
     <<"x", "y", " ", "n", "o">>, <<".", ".">>}

LocalCalls ==
    {NewTask("local_text", <<text>>, FALSE) : text \in LocalTextVals}
    \cup {NewTask("local_lines", lines, FALSE) : lines \in LinesUpTo(MaxLines, LocalTextVals)}

\* a call of LocalTranslator.translate_text(text): no statement of its try
\* block raises on a str, the handler that returns text is not entered
CallLocalTranslateText(t) ==
    LET task == tk[t]
    IN  /\ task.op = "local_text" /\ task.pc = "start"
        /\ Upd(t, Finish(task, <<LocalTranslateText(task.lines[1])>>))
        /\ UNCHANGED <<genai_key, current_api_key, sem_tr, sem_mgr, orphans,
                       groq_client, fallback_api_key>>
        /\ UNCHANGED poolVars
        /\ UNCHANGED guardVars /\ UNCHANGED botVars

\* a call of LocalTranslator.translate_lines(lines)
CallLocalTranslateLines(t) ==
    LET task == tk[t]
    IN  /\ task.op = "local_lines" /\ task.pc = "start"
        /\ Upd(t, Finish(task, LocalTranslateLines(task.lines)))
        /\ UNCHANGED <<genai_key, current_api_key, sem_tr, sem_mgr, orphans,
                       groq_client, fallback_api_key>>
        /\ UNCHANGED poolVars
        /\ UNCHANGED guardVars /\ UNCHANGED botVars

\* the lines given to GroqBatchTranslator.translate_lines
GroqLineVals == {<<>>, <<" ">>, <<"o", "r">>, <<"x", "=", "1">>}

GroqCalls == {NewTask("groq_lines", lines, FALSE) : lines \in LinesUpTo(MaxLines + 1, GroqLineVals)}

\* the contents a completion may hold for n input lines: up to n + 1
\* translated lines, bare or inside blank lines, and a blank content
GroqContents(n) ==
    {Join(<<"\n">>, [k \in 1..m |-> Tr(k)]) : m \in 1..(n + 1)}
    \cup {<<"\n", " ">> \o Join(<<"\n">>, [k \in 1..m |-> Tr(k)]) \o <<"\n">> : m \in 1..n}
    \cup {<<" ">>, Tr(1) \o <<"\n">> \o <<"\n">> \o Tr(3)}

GroqOutcomes(n) ==
    {GroqOutcome("content", content) : content \in GroqContents(n)}
    \cup {GroqOutcome("empty", <<>>), GroqOutcome("error", <<>>)}

\* a call of GroqBatchTranslator.translate_lines(lines) on a translator with
\* or without a client; what the request ended with is kept in the log and
\* in the text of the call
CallGroqTranslateLines(t) ==
    LET task == tk[t]
    IN  /\ task.op = "groq_lines" /\ task.pc = "start"
        /\ \E outcome \in GroqOutcomes(Len(task.lines)) :
              Upd(t, Finish(Logged([task EXCEPT !.text = outcome.content],
                                   <<IF groq_client THEN outcome.kind ELSE "unavailable">>),
                            TranslateLinesBatch(task.lines, groq_client, outcome)))
        /\ UNCHANGED <<genai_key, current_api_key, sem_tr, sem_mgr, orphans,
                       groq_client, fallback_api_key>>
        /\ UNCHANGED poolVars
        /\ UNCHANGED guardVars /\ UNCHANGED botVars

PureCalls == StatusCalls \cup LocalCalls \cup GroqCalls

InitPure ==
    /\ InitShared({<<"", "">>})
    /\ \E call \in PureCalls :
          /\ tk = [t \in Tasks |-> IF t = 1 THEN call ELSE IdleTask]
          /\ groq_client \in (IF call.op = "groq_lines" THEN BOOLEAN ELSE {FALSE})

NextPure ==
    \E t \in Tasks :
        \/ CallGetStatus(t)
        \/ CallLocalTranslateText(t)
        \/ CallLocalTranslateLines(t)
        \/ CallGroqTranslateLines(t)

SpecPure == InitPure /\ [][NextPure]_vars

\* ------------------------------------------------ bot handlers (SpecBot)
\* the updates the bot takes from Telegram
MaxUpdates == 4

\* an Application built with concurrent_updates(True) takes the next update
\* while handlers are still running
DispatchableConcurrently(hs) == \E s \in Slots : hs[s].pc = "done"

\* main.py builds the Application with Application.builder().token(..).build():
\* concurrent_updates is left at its default, so the Application awaits the
\* handler of one update before it takes the next update
Dispatchable(hs) == \A s \in Slots : hs[s].pc = "done"

UpdHandler(s, h) == handlers' = [handlers EXCEPT ![s] = h]

\* a document message or a format button of a user reaches its handler; the
\* document is numbered by the update that carries it
Dispatch(s) ==
    /\ Dispatchable(handlers)
    /\ handlers[s].pc = "done"
    /\ \A r \in Slots : r < s => handlers[r].pc # "done"
    /\ bot_history.updates < MaxUpdates
    /\ \E user_id \in Users, name \in {"handle_document", "handle_format_selection"} :
          UpdHandler(s, [name |-> name, user_id |-> user_id, pc |-> "start",
                         document |-> IF name = "handle_document"
                                      THEN bot_history.updates + 1 ELSE 0])
    /\ bot_history' = [bot_history EXCEPT !.updates = @ + 1]
    /\ UNCHANGED <<active_translations, user_files>>

\* handle_document up to _show_format_options: a blocked user, a user over the
\* daily limit and an invalid file are answered and the handler returns; a
\* user in active_translations is told to wait; otherwise the user is added.
\* When the blocked-user lookup or its reply raises, the except clause
\* discards the user.
HandleDocumentStart(s) ==
    LET h == handlers[s]
    IN  /\ h.name = "handle_document" /\ h.pc = "start"
        /\ \E refused \in {"raised", "blocked", "limit", "no"} :
              IF refused = "raised"
              THEN /\ UpdHandler(s, [h EXCEPT !.pc = "done"])
                   /\ active_translations' = active_translations \ {h.user_id}
                   /\ UNCHANGED bot_history
              ELSE IF refused = "blocked"
              THEN /\ UpdHandler(s, [h EXCEPT !.pc = "done"])
                   /\ UNCHANGED <<active_translations, bot_history>>
              ELSE IF h.user_id \in active_translations
              THEN /\ UpdHandler(s, [h EXCEPT !.pc = "reply_busy"])
                   /\ bot_history' = [bot_history EXCEPT !.rejected = @ \cup {h.document}]
                   /\ UNCHANGED active_translations
              ELSE IF refused = "limit"
              THEN /\ UpdHandler(s, [h EXCEPT !.pc = "done"])
                   /\ UNCHANGED <<active_translations, bot_history>>
              ELSE /\ active_translations' = active_translations \cup {h.user_id}
                   /\ UpdHandler(s, [h EXCEPT !.pc = "show"])
                   /\ UNCHANGED bot_history
        /\ UNCHANGED user_files

\* the reply "You already have a file being processed" is sent and the handler
\* returns; when sending it raises, the except clause of handle_document sends
\* its own reply and then discards the user ("raised"), unless that reply
\* raises too ("raised_twice")
HandleDocumentBusy(s) ==
    LET h == handlers[s]
    IN  /\ h.name = "handle_document" /\ h.pc = "reply_busy"
        /\ \E reply \in {"sent", "raised", "raised_twice"} :
              active_translations' = IF reply = "raised"
                                     THEN active_translations \ {h.user_id}
                                     ELSE active_translations
        /\ UpdHandler(s, [h EXCEPT !.pc = "done"])
        /\ UNCHANGED <<user_files, bot_history>>

\* the finally clause of handle_document
DocumentFinally(active, files, user_id) ==
    IF files[user_id] = 0 THEN active \ {user_id} ELSE active

\* _show_format_options up to the stored file: the download or the extraction
\* raises, or no text is found, or the file is stored in user_files
ShowFormatOptions(s) ==
    LET h == handlers[s]
    IN  /\ h.name = "handle_document" /\ h.pc = "show"
        /\ \E outcome \in {"raised", "no_text", "stored"} :
              IF outcome = "raised"
              THEN /\ active_translations' =
                          DocumentFinally(active_translations \ {h.user_id}, user_files,
                                          h.user_id)
                   /\ UpdHandler(s, [h EXCEPT !.pc = "done"])
                   /\ UNCHANGED user_files
              ELSE IF outcome = "no_text"
              THEN /\ active_translations' =
                          DocumentFinally(active_translations, user_files, h.user_id)
                   /\ UpdHandler(s, [h EXCEPT !.pc = "done"])
                   /\ UNCHANGED user_files
              ELSE /\ user_files' = [user_files EXCEPT ![h.user_id] = h.document]
                   /\ UpdHandler(s, [h EXCEPT !.pc = "edit"])
                   /\ UNCHANGED active_translations
        /\ UNCHANGED bot_history

\* the format buttons are shown; when showing them raises, the except clause
\* of _show_format_options discards the user and leaves the stored file
ShowFormatButtons(s) ==
    LET h == handlers[s]
    IN  /\ h.name = "handle_document" /\ h.pc = "edit"
        /\ \E raised \in BOOLEAN :
              active_translations' =
                  DocumentFinally(IF raised THEN active_translations \ {h.user_id}
                                  ELSE active_translations, user_files, h.user_id)
        /\ UpdHandler(s, [h EXCEPT !.pc = "done"])
        /\ UNCHANGED <<user_files, bot_history>>

\* the finally clause of handle_format_selection
SelectionFinally(s, h) ==
    /\ user_files' = [user_files EXCEPT ![h.user_id] = 0]
    /\ active_translations' = active_translations \ {h.user_id}
    /\ UpdHandler(s, [h EXCEPT !.pc = "done"])

\* handle_format_selection up to _process_document_with_format: query.answer()
\* raises, or the user has no stored file, or the translation of the stored
\* file starts
HandleFormatSelectionStart(s) ==
    LET h == handlers[s]
    IN  /\ h.name = "handle_format_selection" /\ h.pc = "start"
        /\ \E raised \in BOOLEAN :
              IF raised \/ user_files[h.user_id] = 0
              THEN /\ SelectionFinally(s, h)
                   /\ UNCHANGED bot_history
              ELSE /\ UpdHandler(s, [h EXCEPT !.pc = "translating",
                                              !.document = user_files[h.user_id]])
                   /\ bot_history' = [bot_history EXCEPT
                                         !.translated = Append(@, user_files[h.user_id])]
                   /\ UNCHANGED <<active_translations, user_files>>

\* _process_document_with_format returns or raises, and the finally clause runs
ProcessDocumentEnds(s) ==
    LET h == handlers[s]
    IN  /\ h.name = "handle_format_selection" /\ h.pc = "translating"
        /\ SelectionFinally(s, h)
        /\ UNCHANGED bot_history

InitBot == InitPool

BotFrame ==
    UNCHANGED guardVars /\ UNCHANGED poolVars /\ UNCHANGED taskVars /\ UNCHANGED groq_manager

NextBot ==
    \E s \in Slots :
        \/ Dispatch(s) /\ BotFrame
        \/ HandleDocumentStart(s) /\ BotFrame
        \/ HandleDocumentBusy(s) /\ BotFrame
        \/ ShowFormatOptions(s) /\ BotFrame
        \/ ShowFormatButtons(s) /\ BotFrame
        \/ HandleFormatSelectionStart(s) /\ BotFrame
        \/ ProcessDocumentEnds(s) /\ BotFrame

SpecBot == InitBot /\ [][NextBot]_vars

\* ------------------------------------------------ Groq settings (SpecGroq)
\* the model names given to set_model: the supported ones, a name that is not
\* supported, the empty name
ModelArgs == ModelNames \cup {"gpt-4", ""}

\* the max_tokens given to set_parameters: left out, not positive, below,
\* at and above the two caps
TokenArgs == {<<>>} \cup {<<n>> : n \in {-1, 0, 1, 8192, 8193, 32768, 32769}}
TemperatureArgs == {None, "0.7"}
TopPArgs == {None, "0.9"}

SetModelOp(model_name) == "set_model(" \o model_name \o ")"

CallSetModel ==
    /\ \E model_name \in ModelArgs :
          /\ groq_manager' = SetModel(groq_manager, model_name)
          /\ last_call' = [NoCall EXCEPT !.op = SetModelOp(model_name)]
    /\ UNCHANGED <<active_translations, user_files, handlers, bot_history>>
    /\ UNCHANGED <<api_keys, timers, next_obj>>
    /\ UNCHANGED guardVars /\ UNCHANGED taskVars

CallSetParameters ==
    /\ \E temperature \in TemperatureArgs, max_tokens \in TokenArgs, top_p \in TopPArgs :
          groq_manager' = SetParameters(groq_manager, temperature, max_tokens, top_p)
    /\ last_call' = [NoCall EXCEPT !.op = "set_parameters"]
    /\ UNCHANGED <<active_translations, user_files, handlers, bot_history>>
    /\ UNCHANGED <<api_keys, timers, next_obj>>
    /\ UNCHANGED guardVars /\ UNCHANGED taskVars

NextGroq == CallSetModel \/ CallSetParameters

SpecGroq == InitPool /\ [][NextGroq]_vars

\* ------------------------------------------------------------------ claims
\* C4: right after any call of get_current_api_key, whatever calls came
\* before, the call returned None if and only if the pool holds no
\* credential; a call that found every credential inactive reactivated them
\* all and returned the secret of one of them.
C4_NoneOnlyWhenEmpty ==
    last_call.op = "get_current_api_key" =>
        /\ (last_call.ret = None) <=> (api_keys = <<>>)
        /\ last_call.ret # None =>
              \E i \in 1..Len(api_keys) :
                  api_keys[i].key = last_call.ret /\ api_keys[i].is_active
        /\ last_call.reset => \A i \in 1..Len(api_keys) : api_keys[i].is_active

\* a selection that found a pool of two credentials all inactive
C4_Witness ==
    /\ last_call.op = "get_current_api_key"
    /\ last_call.reset
    /\ Len(api_keys) >= 2
    /\ last_call.ret # None

\* C9: for every text, restoring the masked text returns the text, and no
\* placeholder remains in it.
C9_RoundTrip ==
    g_pc = "restored" =>
        /\ g_restored = g_text
        /\ \A k \in 1..Len(g_restored) : g_restored[k] \notin PlaceholderSet

\* ---------------------------------------------------- claims on the calls
InLog(log, e) == \E j \in 1..Len(log) : log[j] = e

\* every primary request of the log failed
PrimaryFailed(log) ==
    \A j \in 1..Len(log) :
        log[j] \in KeyVals => j < Len(log) /\ log[j + 1] \in {"quota", "failed"}

\* every secondary request of the log failed
SecondaryFailed(log) ==
    \A j \in 1..Len(log) :
        log[j] = "groq" => j < Len(log) /\ log[j + 1] = "groq_failed"

Returned(t, op) == tk[t].op = op /\ tk[t].pc = "done"

\* C1: translate_lines_with_progress returns exactly len(lines) pairs and
\* pair i has original == lines[i], whatever the providers do.
C1_PairPerLine ==
    \A t \in Tasks :
        Returned(t, "batch") =>
            /\ Len(tk[t].result) = Len(tk[t].lines)
            /\ \A i \in 1..Len(tk[t].lines) : tk[t].result[i][1] = tk[t].lines[i]

\* a call with two lines, one of them blank, has returned after three failed
\* primary requests and a failed secondary request
C1_Witness ==
    \E t \in Tasks :
        /\ Returned(t, "batch")
        /\ Len(tk[t].lines) = 2
        /\ NonBlank(tk[t].lines) = {2}
        /\ Faults(tk[t].log) = BatchRetries
        /\ InLog(tk[t].log, "groq_failed")

\* C2: when every primary and every secondary request fails,
\* translate_lines_with_progress gives each non-empty line its
\* LocalDictionary translation.
C2_DictionaryWhenAllFail ==
    \A t \in Tasks :
        (/\ Returned(t, "batch")
         /\ Faults(tk[t].log) > 0
         /\ PrimaryFailed(tk[t].log)
         /\ SecondaryFailed(tk[t].log)) =>
            /\ Len(tk[t].result) = Len(tk[t].lines)
            /\ \A i \in NonBlank(tk[t].lines) :
                  tk[t].result[i][2] = LocalTranslateText(tk[t].lines[i])

\* C3: at every moment at most 8 requests to the primary provider are in
\* flight, for chunk, single-line and batch calls alike and also after a
\* request has timed out.
C3_AtMostEightInFlight == InFlight <= TranslatorPermits

\* the translation t is allowed to be for original o when line i of a batch
\* (i = 0: a chunk) was answered by a provider, by the dictionary or not at all
FromProvider(o, tr, i) ==
    IF i > 0 THEN tr = Tr(i)
    ELSE LET masked == ExtractMathExpressions(o)
         IN  \E response \in ChunkResponses(masked.text) :
                tr = RestoreMathExpressions(Strip(response), masked.map)

TierResult(o, tr, i) ==
    \/ FromProvider(o, tr, i)
    \/ tr = LocalTranslateText(o)
    \/ tr = o

\* C5 as stated: no exception escapes a chunk or a batch, and every
\* translation returned is a provider result, a local-dictionary result or
\* the original text.
C5_EveryTranslationFromATier ==
    \A t \in Tasks :
        /\ tk[t].pc # "raised"
        /\ Returned(t, "batch") =>
              \A i \in 1..Len(tk[t].result) :
                  TierResult(tk[t].result[i][1], tk[t].result[i][2], i)
        /\ Returned(t, "doc") =>
              \A i \in 1..Len(tk[t].result) :
                  TierResult(tk[t].result[i][1], tk[t].result[i][2], 0)

\* C5, amended: no exception escapes a chunk or a batch, and every
\* translation returned for a line that is not blank is a provider result, a
\* local-dictionary result or the original text; a blank line gets the empty
\* string or itself.
C5_NoExceptionEscapes ==
    \A t \in Tasks :
        /\ tk[t].pc # "raised"
        /\ Returned(t, "batch") =>
              \A i \in 1..Len(tk[t].result) :
                  IF Strip(tk[t].result[i][1]) # <<>>
                  THEN TierResult(tk[t].result[i][1], tk[t].result[i][2], i)
                  ELSE tk[t].result[i][2] \in {<<>>, tk[t].result[i][1]}
        /\ Returned(t, "doc") =>
              \A i \in 1..Len(tk[t].result) :
                  TierResult(tk[t].result[i][1], tk[t].result[i][2], 0)

\* a batch has returned its pairs although its first progress callback raised
C5_Witness ==
    \E t \in Tasks :
        /\ Returned(t, "batch")
        /\ tk[t].cb
        /\ Len(tk[t].progress) = 1
        /\ tk[t].result # <<>>

\* C6: the tiers are tried in the order primary, secondary, local dictionary:
\* after the primary attempts the secondary is attempted when configured, and
\* the local dictionary is entered when the secondary fails or is not
\* configured.
C6_TierOrder ==
    \A t \in Tasks :
        (/\ tk[t].pc = "done"
         /\ tk[t].op \in {"batch", "single", "doc"}
         /\ Faults(tk[t].log) > 0
         /\ PrimaryFailed(tk[t].log)
         /\ SecondaryFailed(tk[t].log)) =>
            /\ groq_client => InLog(tk[t].log, "groq")
            /\ InLog(tk[t].log, "local")

\* C7: GeminiTranslator.translate_lines returns one pair per input line in
\* input order, and each empty input line as a pair with an empty translation.
C7_PairPerInputLine ==
    \A t \in Tasks :
        Returned(t, "doc") =>
            /\ Len(tk[t].result) = Len(tk[t].lines)
            /\ \A i \in 1..Len(tk[t].lines) :
                  /\ tk[t].result[i][1] = tk[t].lines[i]
                  /\ tk[t].lines[i] = <<>> => tk[t].result[i][2] = <<>>

\* C8: in the output of translate_lines_with_progress every input line that is
\* empty or whitespace-only has translated == "".
C8_BlankLineEmptyTranslation ==
    \A t \in Tasks :
        Returned(t, "batch") =>
            \A i \in 1..Len(tk[t].lines) :
                (i <= Len(tk[t].result) /\ Strip(tk[t].lines[i]) = <<>>) =>
                    tk[t].result[i][2] = <<>>

\* C10: after a quota error, when the next selection finds no active
\* credential the request falls through to the next tier instead of issuing
\* another primary request.
C10_FallThroughWhenNoneActive ==
    \A t \in Tasks :
        \A j \in 1..Len(tk[t].log) :
            (/\ tk[t].log[j] = "quota"
             /\ j + 2 <= Len(tk[t].log)
             /\ tk[t].log[j + 1] = "reset") =>
                tk[t].log[j + 2] \notin KeyVals


\* the is_active flag of every credential of the pool
ActiveFlags(keys) == [i \in 1..Len(keys) |-> keys[i].is_active]

\* C11: a failure reported to the pool with a reason that is not quota or
\* rate-limit exhaustion changes no credential's is_active flag.
C11_NonQuotaLeavesActive ==
    [][(last_call'.op = "mark_key_failed" /\ ~IsQuotaMessage(last_call'.error_message))
          => ActiveFlags(api_keys') = ActiveFlags(api_keys)]_vars

\* C12: every provider request is bounded by a timeout, so every call that
\* was started returns, however long a provider stays silent.
C12_NoCallBlockedForever == \A t \in Tasks : <>(tk[t].pc = "done")

\* C13: the permits missing from each gate are exactly those of the calls
\* that are inside its block: a call that returned, fell back or was
\* cancelled holds none, and with no call in progress all 8 are free.
C13_PermitsReleased ==
    /\ sem_tr = TranslatorPermits
                  - Cardinality({t \in Tasks : tk[t].op = "doc" /\ InsideGate(tk[t])})
    /\ sem_mgr = ManagerPermits
                   - Cardinality({t \in Tasks : tk[t].op = "single" /\ InsideGate(tk[t])})
    /\ (\A t \in Tasks : tk[t].pc \in {"done", "cancelled"})
          => sem_tr = TranslatorPermits /\ sem_mgr = ManagerPermits

\* every call has ended, one of them cancelled after a failed attempt and
\* one after falling back to the dictionary or returning the Groq result
C13_Witness ==
    /\ \A t \in Tasks : tk[t].pc \in {"done", "cancelled"}
    /\ \E t \in Tasks : tk[t].pc = "cancelled" /\ InLog(tk[t].log, "failed")
    /\ \E t \in Tasks : tk[t].pc = "done"
                         /\ (InLog(tk[t].log, "local") \/ InLog(tk[t].log, "groq"))

\* C14: every primary request is sent with the credential that
\* get_current_api_key returned (or the fallback key taken) for that attempt.
C14_RequestUsesSelectedKey == \A t \in Tasks : tk[t].pc = "request" => tk[t].req_key = tk[t].api_key

\* the lines of all chunks, in order
RECURSIVE ConcatChunks(_, _)
ConcatChunks(chunks, k) ==
    IF k > Len(chunks) THEN <<>> ELSE chunks[k] \o ConcatChunks(chunks, k + 1)

\* the input lines stripped, without those that are empty then
StrippedLines(lines) ==
    SelectSeq([i \in 1..Len(lines) |-> Strip(lines[i])], LAMBDA line : line # <<>>)

Chunked(t) == tk[t].op = "chunks" /\ tk[t].pc = "done"

\* C15: the chunks of _create_smart_chunks, concatenated in order, are the
\* non-empty stripped input lines in their order.
C15_ChunksKeepLines ==
    \A t \in Tasks :
        Chunked(t) => ConcatChunks(tk[t].chunks, 1) = StrippedLines(tk[t].lines)

\* a list of full length cut into three chunks or more, one of them of
\* several lines, with an empty line in it
C15_Witness ==
    \E t \in Tasks :
        /\ Chunked(t)
        /\ Len(tk[t].lines) = MaxUnitLines
        /\ Len(tk[t].chunks) >= 3
        /\ \E k \in 1..Len(tk[t].lines) : tk[t].lines[k] = <<>>
        /\ \E c \in 1..Len(tk[t].chunks) : Len(tk[t].chunks[c]) >= 2

\* C16: every chunk has between 1 and 5 lines, and a line that ends in
\* '.', '!', '?' or ':' or is a mathematical line is the last of its chunk.
C16_ChunkShape ==
    \A t \in Tasks :
        Chunked(t) =>
            \A c \in 1..Len(tk[t].chunks) :
                LET chunk == tk[t].chunks[c]
                IN  /\ Len(chunk) >= 1 /\ Len(chunk) <= 5
                    /\ \A k \in 1..Len(chunk) :
                          (\/ chunk[k][Len(chunk[k])] \in {".", "!", "?", ":"}
                           \/ IsMathematicalLine(chunk[k]))
                             => k = Len(chunk)

\* a sentence closes the first chunk and the five lines after it fill the
\* second
C16_Witness ==
    \E t \in Tasks :
        /\ Chunked(t)
        /\ Len(tk[t].chunks) = 2
        /\ tk[t].chunks[1] = <<<<"o", "r", ".">>>>
        /\ Len(tk[t].chunks[2]) = 5
        /\ \A k \in 1..5 : tk[t].chunks[2][k] = <<"o", "r">>

\* whether a unit has no content
ZeroContent(chunk) == \A k \in 1..Len(chunk) : chunk[k] = <<>>

\* C17: every empty input line is emitted as a unit of its own with no
\* content, so there are as many such units as empty input lines.
C17_EmptyLineIsUnit ==
    \A t \in Tasks :
        Chunked(t) =>
            Cardinality({c \in 1..Len(tk[t].chunks) : ZeroContent(tk[t].chunks[c])})
              = Cardinality({k \in 1..Len(tk[t].lines) : tk[t].lines[k] = <<>>})

\* the lines of a response that begin with "n. "
EntryLines(text, n) ==
    LET translated_lines == SplitOn(text, <<"\n">>)
        prefix == Decimal(n) \o <<".", " ">>
    IN  {k \in 1..Len(translated_lines) :
            /\ Len(translated_lines[k]) >= Len(prefix)
            /\ SubSeq(translated_lines[k], 1, Len(prefix)) = prefix}

\* the text of the entry numbered n, the last one when there are several
EntryText(text, n) ==
    LET line == SplitOn(text, <<"\n">>)[Max(EntryLines(text, n))]
    IN  Strip(SubSeq(line, Len(Decimal(n)) + 3, Len(line)))

Parsed(t) == tk[t].op = "parse" /\ tk[t].pc = "done"

\* C18: _parse_batch_translation returns one pair per line; a line that is
\* not blank is paired with the text of the response entry of its number
\* when the response holds one and with itself otherwise, whatever the
\* response holds for the other lines.
C18_EntryOrOriginal ==
    \A t \in Tasks :
        Parsed(t) =>
            /\ Len(tk[t].result) = Len(tk[t].lines)
            /\ \A i \in 1..Len(tk[t].lines) :
                  /\ tk[t].result[i][1] = tk[t].lines[i]
                  /\ Strip(tk[t].lines[i]) # <<>> =>
                        tk[t].result[i][2] =
                            IF EntryLines(tk[t].text, i) # {}
                            THEN EntryText(tk[t].text, i)
                            ELSE tk[t].lines[i]

\* three lines of text answered with the entries 1 and 3 only
C18_Witness ==
    \E t \in Tasks :
        /\ Parsed(t)
        /\ Len(tk[t].lines) = 3
        /\ \A i \in 1..3 : Strip(tk[t].lines[i]) # <<>>
        /\ EntryLines(tk[t].text, 2) = {}
        /\ tk[t].result[1][2] = Tr(1)
        /\ tk[t].result[2][2] = tk[t].lines[2]
        /\ tk[t].result[3][2] = Tr(3)

\* the primary requests a call has sent so far: one log entry with the key
\* of the request each
RECURSIVE RequestsIn(_)
RequestsIn(log) ==
    IF log = <<>> THEN 0
    ELSE (IF log[1] \in KeyVals \cup {None} THEN 1 ELSE 0) + RequestsIn(Tail(log))

\* the positions of a call inside its retry loop
InRetryLoop(task) == task.pc \in {"select", "callback", "request"}

\* C19: a batch sends at most 3 primary requests, a single line at most 2, a
\* document at most 3 for each chunk, under any mix of failures; once the
\* attempts are used up the call is at its fallback (Groq, or the dictionary
\* for a chunk) and not in the loop.
C19_RetryLimits ==
    \A t \in Tasks :
        LET task == tk[t]
        IN  /\ task.op = "batch" =>
                  /\ RequestsIn(task.log) <= 3
                  /\ InRetryLoop(task) => task.attempt < 3 /\ Faults(task.log) < 3
                  /\ Faults(task.log) >= 3 => task.pc \in {"groq", "groq_request", "done"}
            /\ task.op = "single" =>
                  /\ RequestsIn(task.log) <= 2
                  /\ InRetryLoop(task) => task.attempt < 2 /\ Faults(task.log) < 2
                  /\ Faults(task.log) >= 2 => task.pc \in {"groq", "groq_request", "done"}
            /\ task.op = "doc" =>
                  /\ RequestsIn(task.log) <= 3 * task.ci
                  /\ InRetryLoop(task) => task.attempt < 3
                  /\ (InRetryLoop(task) /\ task.ci = 1) => Faults(task.log) = task.attempt
                  /\ (task.pc = "request" /\ task.ci = 1) =>
                        RequestsIn(task.log) = task.attempt + 1
                  /\ (Len(task.chunks) = 1 /\ Faults(task.log) >= 3) =>
                        task.pc = "done" /\ InLog(task.log, "local")

\* a batch that sent three requests, two of which hit the quota and one of
\* which failed otherwise, and went on to Groq
C19_Witness ==
    \E t \in Tasks :
        /\ tk[t].op = "batch"
        /\ RequestsIn(tk[t].log) = 3
        /\ InLog(tk[t].log, "quota") /\ InLog(tk[t].log, "failed")
        /\ Faults(tk[t].log) = 3
        /\ tk[t].pc = "groq_request"

\* whether the pool holds the credential object inactive
Inactive(obj) == \E i \in 1..Len(api_keys) : api_keys[i].obj = obj /\ ~api_keys[i].is_active

\* C20: when mark_key_failed has returned the credential is inactive and its
\* reactivation is still pending; and every credential that is inactive
\* becomes active again or leaves the pool.
C20_CooldownEnds ==
    /\ [][last_call'.op = "mark_key_failed" =>
             \/ api_keys' = api_keys /\ timers' = timers
             \/ \E i \in 1..Len(api_keys) :
                   /\ ~api_keys'[i].is_active
                   /\ timers'[api_keys[i].obj] = timers[api_keys[i].obj] + 1
                   /\ \A j \in 1..Len(api_keys) : j # i => api_keys'[j] = api_keys[j]]_vars
    /\ \A obj \in ObjIds : Inactive(obj) ~> (~Inactive(obj))

\* mark_key_failed has just deactivated one of two credentials
C20_Witness ==
    /\ last_call.op = "mark_key_failed"
    /\ Len(api_keys) = 2
    /\ \E i \in 1..2 : ~api_keys[i].is_active /\ timers[api_keys[i].obj] > 0
    /\ \E i \in 1..2 : api_keys[i].is_active

\* C21: a call of get_current_api_key that finds a credential and none of
\* them active leaves them all active; any other call of it leaves every
\* is_active flag as it was.
C21_ResetOnlyWhenNoneActive ==
    [][last_call'.op = "get_current_api_key" =>
          IF api_keys # <<>> /\ ActiveIdx(api_keys) = {}
          THEN ActiveIdx(api_keys') = 1..Len(api_keys) /\ last_call'.reset
          ELSE ActiveFlags(api_keys') = ActiveFlags(api_keys) /\ ~last_call'.reset]_vars

\* a selection made while one credential is active and another is not
C21_Witness ==
    /\ last_call.op = "get_current_api_key"
    /\ ~last_call.reset
    /\ \E i \in 1..Len(api_keys) : ~api_keys[i].is_active
    /\ \E i \in 1..Len(api_keys) : api_keys[i].is_active /\ api_keys[i].usage_count > 0

\* C22: whatever calls of the pool and whatever timers came before, in any
\* order, the value get_current_api_key has just returned is the secret of a
\* credential that is in the pool, is active and is the one just selected.
C22_ReturnedIsActiveMember ==
    (last_call.op = "get_current_api_key" /\ last_call.ret # None) =>
        \E i \in 1..Len(api_keys) :
            /\ api_keys[i].key = last_call.ret
            /\ api_keys[i].is_active
            /\ api_keys[i].last_used = "now"
            /\ api_keys[i].usage_count >= 1

\* a selection that found the pool all inactive while the reactivation of a
\* removed credential was pending
C22_Witness ==
    /\ last_call.op = "get_current_api_key" /\ last_call.ret # None
    /\ last_call.reset
    /\ \E obj \in ObjIds :
          /\ timers[obj] > 0
          /\ \A i \in 1..Len(api_keys) : api_keys[i].obj # obj

\* C23: no two credentials of the pool have the same secret, from the load
\* of the environment on.
C23_NoDuplicateSecrets ==
    \A i \in 1..Len(api_keys) : \A j \in 1..Len(api_keys) :
        api_keys[i].key = api_keys[j].key => i = j

\* C24: the 'key' entry get_status returns for a credential differs from
\* the credential's secret.
C24_StatusHidesSecret ==
    \A t \in Tasks :
        (tk[t].op = "status" /\ tk[t].pc = "done") => tk[t].result[1] # tk[t].lines[1]

\* the originals of a list of pairs, and the lines of the first n chunks
Originals(pairs) == [k \in 1..Len(pairs) |-> pairs[k][1]]
LinesOfChunks(chunks, n) == ConcatChunks(SubSeq(chunks, 1, n), 1)

\* the chunks of a document whose pairs have been appended
ChunksAppended(task) == IF task.pc = "done" THEN Len(task.chunks) ELSE task.ci - 1

\* C25: while translate_lines works on chunk k, and whenever a request for
\* chunk k is out, the pairs appended so far are those of the chunks 1..k-1
\* in that order; the pairs returned are those of all chunks in order.
C25_ChunksInOrder ==
    \A t \in Tasks :
        (tk[t].op = "doc" /\ tk[t].chunks # <<>>) =>
            /\ Join(<<" ">>, Originals(tk[t].pairs))
                 = Join(<<" ">>, LinesOfChunks(tk[t].chunks, ChunksAppended(tk[t])))
            /\ tk[t].pc = "done" => tk[t].result = tk[t].pairs

\* the request for the second chunk is out and the first chunk went to the
\* local dictionary
C25_Witness ==
    \E t \in Tasks :
        /\ tk[t].op = "doc" /\ tk[t].pc = "request"
        /\ tk[t].ci = 2
        /\ tk[t].pairs # <<>>
        /\ InLog(tk[t].log, "local")

\* C26: once a document translation is cancelled, with the request of chunk
\* k in flight or at any other await, the call is over: nothing follows the
\* cancellation in its history, so no request of a later chunk is sent, and
\* its chunk counter and its pairs stay as they were.
C26_NoRequestAfterCancel ==
    /\ [](\A t \in Tasks :
            tk[t].op = "doc" =>
                \A j \in 1..Len(tk[t].log) :
                    tk[t].log[j] = "cancelled" =>
                        /\ j = Len(tk[t].log)
                        /\ tk[t].pc = "cancelled")
    /\ [][\A t \in Tasks :
            (tk[t].op = "doc" /\ tk[t].pc = "cancelled") => tk'[t] = tk[t]]_vars

\* a document of two chunks cancelled while the request of its first chunk
\* was in flight, while the other call has gone on to its end
C26_Witness ==
    \E t \in Tasks :
        /\ tk[t].op = "doc" /\ tk[t].pc = "cancelled"
        /\ Len(tk[t].chunks) = 2 /\ tk[t].ci = 1
        /\ Len(tk[t].log) >= 2
        /\ tk[t].log[Len(tk[t].log) - 1] \in KeyVals
        /\ tk[t].log[Len(tk[t].log)] = "cancelled"
        /\ \E u \in Tasks \ {t} : tk[u].op \in {"doc", "single"} /\ tk[u].pc = "done"

\* C27: every progress callback of translate_lines_with_progress passes the
\* number of input lines as total and a count of lines, at most that number,
\* as current.
C27_ProgressCountsLines ==
    \A t \in Tasks :
        (tk[t].op = "batch" /\ tk[t].cb) =>
            \A j \in 1..Len(tk[t].progress) :
                /\ tk[t].progress[j][2] = Len(tk[t].lines)
                /\ tk[t].progress[j][1] \in 0..Len(tk[t].lines)

\* a text: a finite sequence of symbols
IsText(x) == DOMAIN x = 1..Len(x) /\ \A k \in 1..Len(x) : x[k] \in STRING

\* C28: LocalTranslator.translate_text ends by returning a text, for every
\* text given; LocalTranslator.translate_lines returns one pair for each input
\* line, in order, whose first part is the line and whose second part is the
\* empty text for a blank line and the translation of the line otherwise.
C28_LocalNeverRaises ==
    \A t \in Tasks :
        /\ tk[t].op \in {"local_text", "local_lines"} => tk[t].pc \in {"start", "done"}
        /\ (tk[t].op = "local_text" /\ tk[t].pc = "done") =>
              /\ Len(tk[t].result) = 1
              /\ IsText(tk[t].result[1])
        /\ (tk[t].op = "local_lines" /\ tk[t].pc = "done") =>
              /\ Len(tk[t].result) = Len(tk[t].lines)
              /\ \A k \in 1..Len(tk[t].lines) :
                    /\ tk[t].result[k][1] = tk[t].lines[k]
                    /\ IsText(tk[t].result[k][2])
                    /\ IF Strip(tk[t].lines[k]) = <<>>
                       THEN tk[t].result[k][2] = <<>>
                       ELSE tk[t].result[k][2] = LocalTranslateText(tk[t].lines[k])

\* translate_lines has returned for a blank line followed by a line of the
\* dictionary: the empty text, then the Arabic word
C28_Witness ==
    \E t \in Tasks :
        /\ tk[t].op = "local_lines" /\ tk[t].pc = "done"
        /\ tk[t].lines = <<<<" ">>, <<" ", "o", "r", ".", " ">>>>
        /\ tk[t].result[1] = <<<<" ">>, <<>>>>
        /\ tk[t].result[2][2] = <<"ar(or)", ".">>

\* how often an entry stands in the log of a call
RECURSIVE CountLog(_, _)
CountLog(log, e) ==
    IF log = <<>> THEN 0
    ELSE (IF log[1] = e THEN 1 ELSE 0) + CountLog(Tail(log), e)

\* C29: when every provider request ends (answer, failure or timeout), every
\* call of translate_lines_with_progress and of translate_lines returns; on
\* the way a batch sends at most 3 primary requests and enters Groq at most
\* once, a document that has begun n chunks has sent at most 3n requests and
\* entered the local dictionary at most n times.
C29_EveryCallReturns ==
    /\ <>(\A t \in Tasks : tk[t].pc = "done")
    /\ [](\A t \in Tasks :
            /\ tk[t].op = "batch" =>
                  /\ RequestsIn(tk[t].log) <= BatchRetries
                  /\ CountLog(tk[t].log, "groq") <= 1
                  /\ tk[t].pc # "fallback"
            /\ tk[t].op = "doc" =>
                  /\ RequestsIn(tk[t].log) <= ChunkRetries * tk[t].ci
                  /\ CountLog(tk[t].log, "local") <= tk[t].ci)

\* a batch has returned after three failed primary requests and a failed Groq
\* request
C29_Witness ==
    \E t \in Tasks :
        /\ tk[t].op = "batch" /\ tk[t].pc = "done"
        /\ RequestsIn(tk[t].log) = BatchRetries
        /\ Faults(tk[t].log) = BatchRetries
        /\ CountLog(tk[t].log, "groq") = 1
        /\ InLog(tk[t].log, "groq_failed")
        /\ Len(tk[t].result) = Len(tk[t].lines)

\* the lines of the answer translate_lines_batch pairs with the input: those
\* of the stripped content when the request gave one for a text that is not
\* blank, none otherwise
AnswerLines(task) ==
    IF InLog(task.log, "content") /\ Strip(Join(<<"\n">>, task.lines)) # <<>>
    THEN SplitOn(Strip(task.text), <<"\n">>)
    ELSE <<>>

\* C30: GroqBatchTranslator.translate_lines ends by returning one pair for
\* each input line, in order, the line first; a line within the lines of the
\* answer is paired with the answer's line of the same index, a line beyond
\* them with itself; without a client, without content or after an exception
\* every line is paired with itself.
C30_OnePairPerLine ==
    \A t \in Tasks :
        /\ tk[t].op = "groq_lines" => tk[t].pc \in {"start", "done"}
        /\ (tk[t].op = "groq_lines" /\ tk[t].pc = "done") =>
              LET answer == AnswerLines(tk[t])
              IN  /\ Len(tk[t].result) = Len(tk[t].lines)
                  /\ \A i \in 1..Len(tk[t].lines) :
                        /\ tk[t].result[i][1] = tk[t].lines[i]
                        /\ tk[t].result[i][2] =
                              IF i <= Len(answer) THEN answer[i] ELSE tk[t].lines[i]

\* an answer of two lines for three input lines: the third keeps its text
C30_Witness ==
    \E t \in Tasks :
        /\ tk[t].op = "groq_lines" /\ tk[t].pc = "done"
        /\ Len(tk[t].lines) = 3
        /\ tk[t].text = Tr(1) \o <<"\n">> \o Tr(2)
        /\ tk[t].result[1][2] = Tr(1)
        /\ tk[t].result[2][2] = Tr(2)
        /\ tk[t].result[3] = <<tk[t].lines[3], tk[t].lines[3]>>
        /\ tk[t].lines[3] # <<>>

\* whether a credential object is in a pool
InPool(keys, obj) == \E i \in 1..Len(keys) : keys[i].obj = obj

\* C31: a call of get_current_api_key that returns a secret adds 1 to the
\* usage_count of one credential, which has that secret, and leaves the
\* other counts as they were; every other operation of the pool (a selection
\* on the empty pool, mark_key_failed, a reactivation timer, add_api_key,
\* remove_api_key) leaves the count of every credential it keeps, and a
\* credential that is added starts at 0.
C31_UsageCountedOnce ==
    [][IF last_call'.op = "get_current_api_key" /\ last_call'.ret # None
       THEN /\ Len(api_keys') = Len(api_keys)
            /\ \E i \in 1..Len(api_keys) :
                  /\ api_keys[i].key = last_call'.ret
                  /\ api_keys'[i].usage_count = api_keys[i].usage_count + 1
                  /\ \A j \in 1..Len(api_keys) :
                        j # i => api_keys'[j].usage_count = api_keys[j].usage_count
       ELSE \A j \in 1..Len(api_keys') :
               /\ \A i \in 1..Len(api_keys) :
                     api_keys[i].obj = api_keys'[j].obj =>
                        api_keys'[j].usage_count = api_keys[i].usage_count
               /\ ~InPool(api_keys, api_keys'[j].obj) => api_keys'[j].usage_count = 0]_vars

\* a selection on a pool of two credentials of which the other one had been
\* selected before
C31_Witness ==
    /\ last_call.op = "get_current_api_key" /\ last_call.ret # None
    /\ Len(api_keys) = 2
    /\ \A i \in 1..2 : api_keys[i].usage_count = 1
    /\ \E i \in 1..2 : api_keys[i].key = last_call.ret /\ api_keys[i].last_used = "now"

\* C32: a reactivation task never makes a credential active while the task
\* of a later quota failure of that credential is still asleep, that is,
\* earlier than 300 seconds after the credential's most recent failure.
C32_NoEarlyReactivation ==
    [][\A i \in 1..Len(api_keys) :
          (/\ timers'[api_keys[i].obj] = timers[api_keys[i].obj] - 1
           /\ ~api_keys[i].is_active
           /\ api_keys'[i].is_active) => timers'[api_keys[i].obj] = 0]_vars

\* C33: after any add_key and remove_key calls, remove_key(api_key) on a pool
\* that holds the secret api_key deletes one credential with that secret and
\* keeps every other credential; on a pool without it nothing is deleted.
C33_RemoveKeyRemovesThatKey ==
    [][\A api_key \in KeyVals :
          last_call'.op = RemoveKeyOp(api_key) =>
             IF FirstWithKey(api_keys, api_key) = 0 THEN api_keys' = api_keys
             ELSE \E i \in 1..Len(api_keys) :
                     /\ api_keys[i].key = api_key
                     /\ api_keys' = DeleteAt(api_keys, i)]_vars

\* C34: within one call of translate_lines_with_progress the current values
\* of the progress callbacks never decrease and never exceed total, and when
\* the call has returned the last callback it made had current = total.
C34_ProgressMonotone ==
    \A t \in Tasks :
        (tk[t].op = "batch" /\ tk[t].cb) =>
            LET progress == tk[t].progress
            IN  /\ \A j \in 1..Len(progress) : progress[j][1] <= progress[j][2]
                /\ \A j \in 1..(Len(progress) - 1) : progress[j][1] <= progress[j + 1][1]
                /\ (tk[t].pc = "done" /\ progress # <<>>) =>
                      progress[Len(progress)][1] = progress[Len(progress)][2]

\* the handlers of a user that are translating a document
Translating(user_id) ==
    {s \in Slots : /\ handlers[s].name = "handle_format_selection"
                   /\ handlers[s].user_id = user_id
                   /\ handlers[s].pc = "translating"}

\* C35: at any time at most one document translation is in progress for a
\* user: while a translation of the user's document is in progress no other
\* handler of that user is past its first check, an upload that finds the
\* user in active_translations neither stores its file nor has it translated,
\* and no stored document is translated twice.
C35_OneTranslationPerUser ==
    /\ \A user_id \in Users :
          /\ Cardinality(Translating(user_id)) <= 1
          /\ Translating(user_id) # {} =>
                \A s \in Slots \ Translating(user_id) :
                    handlers[s].user_id = user_id => handlers[s].pc \in {"start", "done"}
          /\ user_files[user_id] \notin bot_history.rejected
    /\ \A i \in 1..Len(bot_history.translated) :
          /\ bot_history.translated[i] \notin bot_history.rejected
          /\ \A j \in 1..Len(bot_history.translated) :
                i # j => bot_history.translated[i] # bot_history.translated[j]

\* a user's first document is being translated after the second upload of
\* that user was rejected
C35_Witness ==
    \E user_id \in Users :
        /\ Translating(user_id) # {}
        /\ bot_history.translated = <<1>>
        /\ bot_history.rejected = {2}
        /\ bot_history.updates = 3

\* C36: when all 3 attempts of GeminiTranslator._translate_batch have failed,
\* the call has returned the local-dictionary translation of its lines, one
\* pair per line, and has not raised.
C36_LocalAfterThreeFailures ==
    \A t \in Tasks :
        (tk[t].op = "_translate_batch" /\ Faults(tk[t].log) = TranslateBatchRetries) =>
            /\ tk[t].pc = "done"
            /\ tk[t].result = LocalTranslateLines(tk[t].lines)

\* C37: after any sequence of set_model and set_parameters calls the model
\* of the GroqAPIManager is a supported model and max_tokens is at most the
\* max_tokens of that model; set_model with a name that is not supported
\* changes neither the model nor max_tokens.
C37_ModelAndTokensValid ==
    /\ [](/\ groq_manager.model \in DOMAIN AvailableModels
          /\ groq_manager.max_tokens <= AvailableModels[groq_manager.model].max_tokens)
    /\ [][\A model_name \in ModelArgs \ DOMAIN AvailableModels :
             last_call'.op = SetModelOp(model_name) =>
                 /\ groq_manager'.model = groq_manager.model
                 /\ groq_manager'.max_tokens = groq_manager.max_tokens]_vars

\* max_tokens was set to the cap of mixtral-8x7b-32768, and the model was
\* then changed to one with the lower cap, and a name that is not supported
\* was given last
C37_Witness ==
    /\ last_call.op = SetModelOp("gpt-4")
    /\ groq_manager.model = "llama3-70b-8192"
    /\ groq_manager.max_tokens = 8192
    /\ groq_manager.temperature = "0.7"

====
